---- MODULE Spec2Model ----
(***************************************************************************)
(* Model of couchbase/logstats: the rotating stat-log writers (logStats,   *)
(* dedupeLogStats), the delta computation (populateFilteredMap), the       *)
(* rotation and compression of segments (rotate, compressFile) and the     *)
(* reconstruction of deduplicated segments (ReconstructStatLine,           *)
(* ReconstructStatFile).                                                   *)
(*                                                                         *)
(* Text is modelled byte by byte: a []byte or string is a sequence of      *)
(* one-character strings.  A Go value held in a map[string]interface{} is  *)
(* a record [k, n, s, b, m]: k names the dynamic type, and n, s, b, m hold *)
(* the number, string, bool or nested map (the fields the type does not    *)
(* use hold a fixed filler).  A map[string]interface{} is a function from  *)
(* keys (byte sequences) to such records.                                  *)
(***************************************************************************)
EXTENDS Integers, Sequences, FiniteSets, TLC

(***************************************************************************)
(* Bytes.                                                                  *)
(***************************************************************************)
Printable ==
  << " ", "!", "\"", "#", "$", "%", "&", "'", "(", ")", "*", "+", ",", "-",
     ".", "/", "0", "1", "2", "3", "4", "5", "6", "7", "8", "9", ":", ";",
     "<", "=", ">", "?", "@", "A", "B", "C", "D", "E", "F", "G", "H", "I",
     "J", "K", "L", "M", "N", "O", "P", "Q", "R", "S", "T", "U", "V", "W",
     "X", "Y", "Z", "[", "\\", "]", "^", "_", "BACKTICK", "a", "b", "c", "d", "e",
     "f", "g", "h", "i", "j", "k", "l", "m", "n", "o", "p", "q", "r", "s",
     "t", "u", "v", "w", "x", "y", "z", "{", "|", "}", "~" >>

NUL == "NUL"
NL == "\n"

\* Position i holds the character of ASCII code 31 + i (the backtick, which
\* a TLA+ string cannot hold, is a placeholder).
\* The value of a byte: ASCII for the printable characters, 10 for the
\* newline, 0 for the zero byte of a freshly made buffer.
ByteCode(c) ==
  IF c = NL THEN 10
  ELSE IF c = NUL THEN 0
  ELSE 31 + (CHOOSE i \in 1..Len(Printable) : Printable[i] = c)

DigitChars == <<"0", "1", "2", "3", "4", "5", "6", "7", "8", "9">>

IsDigit(c) == \E i \in 1..10 : DigitChars[i] = c

DigitVal(c) == (CHOOSE i \in 1..10 : DigitChars[i] = c) - 1

\* Go's string comparison: byte-wise lexicographic.
RECURSIVE StrLess(_, _)
StrLess(a, b) ==
  IF Len(b) = 0 THEN FALSE
  ELSE IF Len(a) = 0 THEN TRUE
  ELSE IF ByteCode(Head(a)) < ByteCode(Head(b)) THEN TRUE
  ELSE IF ByteCode(Head(a)) > ByteCode(Head(b)) THEN FALSE
  ELSE StrLess(Tail(a), Tail(b))

\* sort.Strings over a set of distinct strings.
RECURSIVE SortStrings(_)
SortStrings(S) ==
  IF S = {} THEN <<>>
  ELSE LET least == CHOOSE x \in S : \A y \in S \ {x} : StrLess(x, y)
       IN  <<least>> \o SortStrings(S \ {least})

\* bytes[from..] (Go's source[from-1:], positions counted from 1 here).
Suffix(bytes, from) == SubSeq(bytes, from, Len(bytes))

RECURSIVE Concat(_)
Concat(seqs) ==
  IF Len(seqs) = 0 THEN <<>> ELSE Head(seqs) \o Concat(Tail(seqs))

(***************************************************************************)
(* Numbers.  TLC's integers are 32 bits wide, the program's are 64 bits    *)
(* and JSON decoding goes through float64, so a number is sign and         *)
(* magnitude, the magnitude in two limbs: hi * 2^27 + lo.  The model       *)
(* covers magnitudes below 2^54, where the spacing of float64 values is at *)
(* most 2 and the shortest decimal form of an integral float64 is its      *)
(* exact value.                                                            *)
(***************************************************************************)
LimbBase == 2 ^ 27

Num(neg, hi, lo) == [neg |-> neg, hi |-> hi, lo |-> lo]

Zero == Num(FALSE, 0, 0)

\* The number n, for a small n >= 0.
Small(n) == Num(FALSE, 0, n)

\* strconv.FormatInt / FormatUint: the decimal digits of a magnitude.
RECURSIVE MagDigits(_, _)
MagDigits(hi, lo) ==
  LET t == (hi % 10) * LimbBase + lo
      qhi == hi \div 10
      qlo == t \div 10
      d == DigitChars[(t % 10) + 1]
  IN  IF qhi = 0 /\ qlo = 0 THEN <<d>> ELSE MagDigits(qhi, qlo) \o <<d>>

FormatNum(n) ==
  (IF n.neg THEN <<"-">> ELSE <<>>) \o MagDigits(n.hi, n.lo)

\* The magnitude a digit string denotes.
RECURSIVE DigitsMag(_, _, _)
DigitsMag(ds, hi, lo) ==
  IF Len(ds) = 0 THEN <<hi, lo>>
  ELSE LET t == lo * 10 + DigitVal(Head(ds))
       IN  DigitsMag(Tail(ds), hi * 10 + (t \div LimbBase), t % LimbBase)

\* float64(n): round to 53 significant bits, ties to even.  Magnitudes
\* below 2^53 (hi < 2^26) are exact; from 2^53 up to 2^54 the spacing is 2.
Float64Of(n) ==
  IF n.hi < 2 ^ 26 \/ n.lo % 2 = 0 THEN n
  ELSE LET lo2 == IF n.lo % 4 = 1 THEN n.lo - 1 ELSE n.lo + 1
       IN  IF lo2 = LimbBase THEN Num(n.neg, n.hi + 1, 0)
           ELSE Num(n.neg, n.hi, lo2)

(***************************************************************************)
(* Go values.                                                              *)
(***************************************************************************)
EmptyMap == [x \in {} |-> 0]

Int64(n) == [k |-> "int64", n |-> n, s |-> <<>>, b |-> FALSE, m |-> EmptyMap]
Uint64(n) == [k |-> "uint64", n |-> n, s |-> <<>>, b |-> FALSE, m |-> EmptyMap]
Float64(n) == [k |-> "float64", n |-> n, s |-> <<>>, b |-> FALSE, m |-> EmptyMap]
Bool(b) == [k |-> "bool", n |-> Zero, s |-> <<>>, b |-> b, m |-> EmptyMap]
String(s) == [k |-> "string", n |-> Zero, s |-> s, b |-> FALSE, m |-> EmptyMap]
Map(m) == [k |-> "map", n |-> Zero, s |-> <<>>, b |-> FALSE, m |-> m]
Nil == [k |-> "nil", n |-> Zero, s |-> <<>>, b |-> FALSE, m |-> EmptyMap]

\* A channel: a value of a kind that encoding/json does not support.
Chan == [k |-> "chan", n |-> Zero, s |-> <<>>, b |-> FALSE, m |-> EmptyMap]

\* An assignment that leaves a key that is present as it is.
MapSet_KeepPresent(m, k, v) ==
  [x \in (DOMAIN m) \cup {k} |-> IF x \in DOMAIN m THEN m[x] ELSE v]

\* m with key k set to v (Go's m[k] = v).
MapSet(m, k, v) ==
  [x \in (DOMAIN m) \cup {k} |-> IF x = k THEN v ELSE m[x]]

(***************************************************************************)
(* json.Marshal of a map[string]interface{}: keys in sorted order, no      *)
(* white space.  The strings of the model hold no byte that Marshal        *)
(* escapes (quote, backslash, control bytes, <, >, &).                     *)
(***************************************************************************)
RECURSIVE MarshalValue(_), MarshalMembers(_, _)
MarshalValue(v) ==
  CASE v.k = "int64" -> FormatNum(v.n)
    [] v.k = "uint64" -> FormatNum(v.n)
    [] v.k = "float64" -> FormatNum(v.n)
    [] v.k = "bool" ->
         IF v.b THEN <<"t", "r", "u", "e">> ELSE <<"f", "a", "l", "s", "e">>
    [] v.k = "string" -> <<"\"">> \o v.s \o <<"\"">>
    [] v.k = "nil" -> <<"n", "u", "l", "l">>
    [] v.k = "map" ->
         <<"{">> \o MarshalMembers(v.m, SortStrings(DOMAIN v.m)) \o <<"}">>

MarshalMembers(m, keys) ==
  IF Len(keys) = 0 THEN <<>>
  ELSE LET k == Head(keys)
           one == <<"\"">> \o k \o <<"\"", ":">> \o MarshalValue(m[k])
       IN  IF Len(keys) = 1 THEN one
           ELSE one \o <<",">> \o MarshalMembers(m, Tail(keys))

Marshal(statMap) == MarshalValue(Map(statMap))

\* json.Marshal returns an error (UnsupportedTypeError) and no bytes: the map
\* holds, at some depth, a value of a kind it does not support.
RECURSIVE MarshalError(_)
MarshalError(statMap) ==
  \E key \in DOMAIN statMap :
    \/ statMap[key].k = "chan"
    \/ statMap[key].k = "map" /\ MarshalError(statMap[key].m)

(***************************************************************************)
(* json.Unmarshal into a map[string]interface{}.  The grammar covered:     *)
(* objects, strings without escapes, integers (decoded as float64), true,  *)
(* false, null, spaces between tokens.  Arrays, fractions, exponents and   *)
(* escapes are outside the model: no input of the model holds one.         *)
(* Positions are counted from 1.                                           *)
(***************************************************************************)
ParseFail == [ok |-> FALSE, v |-> Nil, p |-> 0]

ParseOk(v, p) == [ok |-> TRUE, v |-> v, p |-> p]

RECURSIVE SkipSpaces(_, _)
SkipSpaces(b, i) ==
  IF i <= Len(b) /\ b[i] = " " THEN SkipSpaces(b, i + 1) ELSE i

\* The first position at or after i that holds no digit.
RECURSIVE DigitsEnd(_, _)
DigitsEnd(b, i) ==
  IF i <= Len(b) /\ IsDigit(b[i]) THEN DigitsEnd(b, i + 1) ELSE i

\* The position of the quote closing the string whose content starts at i,
\* 0 when there is none or a byte of the content is not covered.
RECURSIVE StringEnd(_, _)
StringEnd(b, i) ==
  IF i > Len(b) THEN 0
  ELSE IF b[i] = "\"" THEN i
  ELSE IF b[i] \in {"\\", NL, NUL} THEN 0
  ELSE StringEnd(b, i + 1)

HasLiteral(b, i, lit) ==
  /\ i + Len(lit) - 1 <= Len(b)
  /\ SubSeq(b, i, i + Len(lit) - 1) = lit

ParseNumber(b, i) ==
  LET neg == b[i] = "-"
      from == IF neg THEN i + 1 ELSE i
      to == DigitsEnd(b, from)
      ds == SubSeq(b, from, to - 1)
      mag == DigitsMag(ds, 0, 0)
  IN  IF to = from THEN ParseFail
      ELSE IF Len(ds) > 1 /\ ds[1] = "0" THEN ParseFail
      ELSE IF to <= Len(b) /\ b[to] \in {".", "e", "E"} THEN ParseFail
      ELSE ParseOk(Float64(Float64Of(Num(neg, mag[1], mag[2]))), to)

RECURSIVE ParseValue(_, _), ParseMembers(_, _, _)
ParseValue(b, i) ==
  IF i > Len(b) THEN ParseFail
  ELSE CASE b[i] = "{" ->
              LET j == SkipSpaces(b, i + 1)
              IN  IF j <= Len(b) /\ b[j] = "}" THEN ParseOk(Map(EmptyMap), j + 1)
                  ELSE ParseMembers(b, j, EmptyMap)
         [] b[i] = "\"" ->
              LET e == StringEnd(b, i + 1)
              IN  IF e = 0 THEN ParseFail
                  ELSE ParseOk(String(SubSeq(b, i + 1, e - 1)), e + 1)
         [] b[i] = "t" ->
              IF HasLiteral(b, i, <<"t", "r", "u", "e">>)
              THEN ParseOk(Bool(TRUE), i + 4) ELSE ParseFail
         [] b[i] = "f" ->
              IF HasLiteral(b, i, <<"f", "a", "l", "s", "e">>)
              THEN ParseOk(Bool(FALSE), i + 5) ELSE ParseFail
         [] b[i] = "n" ->
              IF HasLiteral(b, i, <<"n", "u", "l", "l">>)
              THEN ParseOk(Nil, i + 4) ELSE ParseFail
         [] b[i] = "-" \/ IsDigit(b[i]) -> ParseNumber(b, i)
         [] OTHER -> ParseFail

\* The members of an object from position i (a key is expected there), m
\* holding the members decoded so far; a repeated key keeps its last value.
ParseMembers(b, i, m) ==
  IF i > Len(b) \/ b[i] # "\"" THEN ParseFail
  ELSE LET e == StringEnd(b, i + 1)
           key == SubSeq(b, i + 1, e - 1)
           c == SkipSpaces(b, e + 1)
           val == ParseValue(b, SkipSpaces(b, c + 1))
           n == SkipSpaces(b, val.p)
       IN  IF e = 0 THEN ParseFail
           ELSE IF c > Len(b) \/ b[c] # ":" THEN ParseFail
           ELSE IF ~val.ok THEN ParseFail
           ELSE IF n > Len(b) THEN ParseFail
           ELSE IF b[n] = "}" THEN ParseOk(Map(MapSet(m, key, val.v)), n + 1)
           ELSE IF b[n] = "," THEN
                  ParseMembers(b, SkipSpaces(b, n + 1), MapSet(m, key, val.v))
           ELSE ParseFail

\* json.Unmarshal(b, &statMap) with statMap an empty map: the text must be
\* one JSON value; an object fills the map, null leaves it empty, any other
\* value is a type error.
Unmarshal(b) ==
  LET r == ParseValue(b, SkipSpaces(b, 1))
  IN  IF ~r.ok \/ SkipSpaces(b, r.p) <= Len(b) THEN [ok |-> FALSE, m |-> EmptyMap]
      ELSE IF r.v.k = "map" THEN [ok |-> TRUE, m |-> r.v.m]
      ELSE IF r.v.k = "nil" THEN [ok |-> TRUE, m |-> EmptyMap]
      ELSE [ok |-> FALSE, m |-> EmptyMap]

(***************************************************************************)
(* The line codec of the reconstruction (reconstruct.go).  Indices are the *)
(* code's, counted from 0: source[i] of the code is source[i + 1] here.    *)
(***************************************************************************)
NotFound == -1

\* An index into an empty stack: the run-time panic "index out of range".
Panicked == -2

At(source, i) == source[i + 1]

\* The loop of extractStatsFromLine from index end down, stack being the
\* closers met so far (its last element the top).
RECURSIVE extractLoop(_, _, _)
extractLoop(source, end, stack) ==
  IF end <= 0 THEN NotFound
  ELSE LET c == At(source, end)
           top == stack[Len(stack)]
           popped == SubSeq(stack, 1, Len(stack) - 1)
       IN  IF c \in {"}", "]", ")"} THEN
             extractLoop(source, end - 1, Append(stack, c))
           ELSE IF c \in {"{", "[", "("} THEN
             IF Len(stack) = 0 THEN Panicked
             ELSE IF c = "{" /\ top # "}" THEN NotFound
             ELSE IF c = "[" /\ top # "]" /\ top # ")" THEN NotFound
             ELSE IF c = "(" /\ top # ")" /\ top # "]" THEN NotFound
             ELSE IF Len(popped) = 0 THEN end
             ELSE extractLoop(source, end - 1, popped)
           ELSE IF Len(stack) = 0 THEN end
           ELSE extractLoop(source, end - 1, stack)

\* The scan with a loop that runs down to index 0 (end >= 0): the scan of the
\* line behind one more byte, its result moved back by one.
extractStatsFromLine_ToZero(source) ==
  LET r == extractLoop(<<"a">> \o source, Len(source), <<>>)
  IN  IF r >= 1 THEN r - 1 ELSE r

extractStatsFromLine(source) == extractLoop(source, Len(source) - 1, <<>>)

\* The bytes source[end], source[end-1], ..., source[1].
RECURSIVE ReversedDownFrom(_, _)
ReversedDownFrom(source, end) ==
  IF end <= 0 THEN <<>>
  ELSE <<At(source, end)>> \o ReversedDownFrom(source, end - 1)

getStatNameFromSource(end, source) ==
  IF end <= 0 THEN <<>>
  ELSE LET spaces == {i \in 1..end : At(source, i) = " "}
           lastSpaceIndex ==
             IF spaces = {} THEN 0
             ELSE CHOOSE i \in spaces : \A j \in spaces : i <= j
           statName == ReversedDownFrom(source, end)
       IN  SubSeq(statName, 1, Len(statName) - lastSpaceIndex)

isValidStatLine(source) ==
  /\ Len(source) # 0
  /\ ByteCode(source[1]) - ByteCode("0") >= 0
  /\ ByteCode(source[1]) - ByteCode("0") <= 9

\* ReconstructStatLine: the bytes returned, the keyToStatsMap left behind,
\* and whether the call panicked instead of returning.
LineResult(out, map, panicked) ==
  [out |-> out, map |-> map, panicked |-> panicked]

\* The fill-forward loop: statMap plus the keys of prevStatMap it lacks.
FillForward(prevStatMap, statMap) ==
  [key \in (DOMAIN statMap) \cup (DOMAIN prevStatMap) |->
     IF key \in DOMAIN statMap THEN statMap[key] ELSE prevStatMap[key]]

ReconstructStatLine(keyToStatsMap, source) ==
  IF ~isValidStatLine(source) THEN LineResult(source, keyToStatsMap, FALSE)
  ELSE
    LET statStart == extractStatsFromLine(source)
        statKey == getStatNameFromSource(statStart - 2, source)
        dec == Unmarshal(Suffix(source, statStart + 1))
        merged == FillForward(keyToStatsMap[statKey], dec.m)
    IN  IF statStart = Panicked THEN LineResult(source, keyToStatsMap, TRUE)
        ELSE IF statStart = NotFound THEN LineResult(source, keyToStatsMap, FALSE)
        ELSE IF At(source, statStart - 1) # " " THEN
          LineResult(source, keyToStatsMap, FALSE)
        ELSE IF ~dec.ok THEN LineResult(source, keyToStatsMap, FALSE)
        ELSE IF statKey \notin DOMAIN keyToStatsMap THEN
          LineResult(source, MapSet(keyToStatsMap, statKey, dec.m), FALSE)
        ELSE
          LineResult(SubSeq(source, 1, statStart) \o Marshal(merged),
                     MapSet(keyToStatsMap, statKey, merged), FALSE)

(***************************************************************************)
(* The delta computation (util.go).                                        *)
(***************************************************************************)
\* A comparison of the types alone.
equalInt64_TypeOnly(v, prev) == v.k = "int64" /\ prev.k = "int64"

equalInt64(v, prev) == v.k = "int64" /\ prev.k = "int64" /\ v.n = prev.n

\* A comparison of the numbers whatever the integer type.
equalUint64_AnyInteger(v, prev) ==
  /\ v.k \in {"int64", "uint64"}
  /\ prev.k \in {"int64", "uint64"}
  /\ v.n = prev.n

equalUint64(v, prev) == v.k = "uint64" /\ prev.k = "uint64" /\ v.n = prev.n

equalBool(v, prev) == v.k = "bool" /\ prev.k = "bool" /\ v.b = prev.b

equalStrings(v, prev) == v.k = "string" /\ prev.k = "string" /\ v.s = prev.s

\* A filter that leaves the empty delta of a nested map in place.
RECURSIVE populateFilteredMap_KeepEmpty(_, _)
populateFilteredMap_KeepEmpty(prevMap, currMap) ==
  LET Equal(k) ==
        \/ equalInt64(currMap[k], prevMap[k])
        \/ equalBool(currMap[k], prevMap[k])
        \/ equalUint64(currMap[k], prevMap[k])
        \/ equalStrings(currMap[k], prevMap[k])
      BothMaps(k) == currMap[k].k = "map" /\ prevMap[k].k = "map"
      Kept(k) == k \notin DOMAIN prevMap \/ ~Equal(k)
  IN  [k \in {x \in DOMAIN currMap : Kept(x)} |->
         IF k \in DOMAIN prevMap /\ BothMaps(k)
         THEN Map(populateFilteredMap_KeepEmpty(prevMap[k].m, currMap[k].m))
         ELSE currMap[k]]

\* populateFilteredMap(prevMap, currMap, newMap) called with an empty
\* newMap: the newMap it leaves behind.
RECURSIVE populateFilteredMap(_, _)
populateFilteredMap(prevMap, currMap) ==
  LET Equal(k) ==
        \/ equalInt64(currMap[k], prevMap[k])
        \/ equalBool(currMap[k], prevMap[k])
        \/ equalUint64(currMap[k], prevMap[k])
        \/ equalStrings(currMap[k], prevMap[k])
      BothMaps(k) == currMap[k].k = "map" /\ prevMap[k].k = "map"
      newM(k) == populateFilteredMap(prevMap[k].m, currMap[k].m)
      Kept(k) ==
        \/ k \notin DOMAIN prevMap
        \/ /\ ~Equal(k)
           /\ BothMaps(k) => DOMAIN newM(k) # {}
  IN  [k \in {x \in DOMAIN currMap : Kept(x)} |->
         IF k \in DOMAIN prevMap /\ BothMaps(k) THEN Map(newM(k))
         ELSE currMap[k]]

(***************************************************************************)
(* Files (util.go).  A file name <name>.<NN>.log[.gz] is the record of its *)
(* name (fileName without its last four bytes), of its number and of       *)
(* whether it carries the .gz suffix; a directory is a function from the   *)
(* names of its files to their contents.  A content is [gz, data]: data    *)
(* the bytes of the file, or, when gz, the bytes a gzip reader gives back  *)
(* from it.                                                                *)
(***************************************************************************)
MAX_NUM_FILES == 99

DotLog == <<".", "l", "o", "g">>

DotGz == <<".", "g", "z">>

\* strings.HasSuffix
HasSuffix(str, suffix) ==
  /\ Len(str) >= Len(suffix)
  /\ SubSeq(str, Len(str) + 1 - Len(suffix), Len(str)) = suffix

HasPrefix(str, prefix) ==
  /\ Len(str) >= Len(prefix)
  /\ SubSeq(str, 1, Len(prefix)) = prefix

\* The fileName that the writers are made with, but for the specification
\* of the constructors, which draws it from FileNames.
LogFileName == <<"s">> \o DotLog

TwoDigits(n) == <<DigitChars[(n \div 10) + 1], DigitChars[(n % 10) + 1]>>

\* getLogFileName: name := fileName[:len(fileName)-4], then <name>.<NN>.log
\* and .gz when compress and num > 0.
getLogFileName(fileName, num, compress) ==
  [name |-> SubSeq(fileName, 1, Len(fileName) - 4), num |-> num,
   gz |-> compress /\ num > 0]

getLogFileNumber(fname) == fname.num

\* The text of a file name.
FileText(fname) ==
  fname.name \o <<".">> \o TwoDigits(fname.num) \o DotLog
  \o (IF fname.gz THEN DotGz ELSE <<>>)

Plain(data) == [gz |-> FALSE, data |-> data]

Gzip(data) == [gz |-> TRUE, data |-> data]

\* A .gz file that its writer did not finish: data is what a gzip reader
\* gives back from it before it fails.
Torn(data) == [gz |-> TRUE, data |-> data, torn |-> TRUE]

EmptyDir == [x \in {} |-> Plain(<<>>)]

\* The numbers are zero-padded to the width of MAX_NUM_FILES, so among the
\* names of one writer the order of the texts is the order of the numbers.
NameBefore(x, y) ==
  IF x.name = y.name /\ x.gz = y.gz THEN x.num <= y.num
  ELSE x = y \/ StrLess(FileText(x), FileText(y))

\* sort.Strings
RECURSIVE SortNames(_)
SortNames(S) ==
  IF S = {} THEN <<>>
  ELSE LET least == CHOOSE x \in S : \A y \in S : NameBefore(x, y)
       IN  <<least>> \o SortNames(S \ {least})

\* The pattern <name>.*.log or, with compress, <name>.*.log.gz matches the
\* text.
Match(text, name, compress) ==
  LET prefix == name \o <<".">>
      suffix == DotLog \o (IF compress THEN DotGz ELSE <<>>)
  IN  /\ Len(text) >= Len(prefix) + Len(suffix)
      /\ HasPrefix(text, prefix)
      /\ HasSuffix(text, suffix)

\* filepath.Glob(pattern) followed by sort.Strings(all).
Glob(d, fileName, compress) ==
  SortNames({n \in DOMAIN d :
               Match(FileText(n), SubSeq(fileName, 1, Len(fileName) - 4),
                     compress)})

\* os.Rename: the file moves to the new name, replacing a file of that name.
Rename(d, old, new) ==
  [n \in ((DOMAIN d) \ {old}) \cup {new} |-> IF n = new THEN d[old] ELSE d[n]]

Remove(d, fname) == [n \in (DOMAIN d) \ {fname} |-> d[n]]

PutFile(d, fname, content) ==
  [n \in (DOMAIN d) \cup {fname} |-> IF n = fname THEN content ELSE d[n]]

\* openLogFile: index 0 is opened with O_CREATE|O_APPEND, so it is created
\* empty when missing and kept as it is otherwise.
openLogFile(d, fileName) ==
  IF getLogFileName(fileName, 0, FALSE) \in DOMAIN d THEN d
  ELSE PutFile(d, getLogFileName(fileName, 0, FALSE), Plain(<<>>))

\* What openLogFile can leave when it returns an error: the directory and
\* the number of handles opened and not closed.  When os.MkdirAll or
\* os.OpenFile fails nothing has changed; when f.Stat fails index 0 has been
\* created and opened, and f is not closed.
openLogFileFailures(d, fileName) ==
  {[dir |-> d, leaked |-> 0],
   [dir |-> openLogFile(d, fileName), leaked |-> 1]}

FileSize(d, fname) == Len(d[fname].data)

\* A copy that does not compress.
compressFile_Copy(d, sourceFname, targetFname) ==
  PutFile(d, targetFname, [gz |-> FALSE, data |-> d[sourceFname].data])

\* compressFile: the whole source is read and written through a gzip writer
\* to the target, opened with O_CREATE|O_TRUNC.
compressFile(d, sourceFname, targetFname) ==
  PutFile(d, targetFname, Gzip(d[sourceFname].data))

\* The renaming loop run from the lowest index up: a file is renamed onto
\* its successor before the successor has moved.
RECURSIVE renameLoop_Ascending(_, _, _, _, _, _)
renameLoop_Ascending(d, fileName, all, i, numFiles, compress) ==
  IF i < 0 THEN d
  ELSE LET l == Len(all)
           j == l - 1 - i
           oldFname == all[j + 1]
           num == all[j + 1].num + 1
           newFname == IF j = l - 1
                       THEN getLogFileName(fileName, num, compress)
                       ELSE all[j + 2]
       IN  IF j = l - 1 /\ num >= numFiles
           THEN renameLoop_Ascending(d, fileName, all, i - 1, numFiles,
                                     compress)
           ELSE IF oldFname \notin DOMAIN d
           THEN renameLoop_Ascending(d, fileName, all, i - 1, numFiles,
                                     compress)
           ELSE renameLoop_Ascending(
                  [n \in ((DOMAIN d) \ {oldFname}) \cup {newFname} |->
                     IF n = newFname THEN d[oldFname] ELSE d[n]],
                  fileName, all, i - 1, numFiles, compress)

\* Turn i of the renaming loop of rotate (i counted from 0) has no os.Rename:
\* all[i] is the last name and its number plus one reaches numFiles.
renameSkips(all, i, numFiles) ==
  /\ i = Len(all) - 1
  /\ getLogFileNumber(all[i + 1]) + 1 >= numFiles

\* Turn i of the renaming loop of rotate: the directory it leaves.
renameTurn(d, fileName, all, i, numFiles, compress) ==
  LET l == Len(all)
      oldFname == all[i + 1]
      num == getLogFileNumber(all[i + 1]) + 1
      newFname == IF i = l - 1
                  THEN getLogFileName(fileName, num, compress)
                  ELSE all[i + 2]
  IN  IF renameSkips(all, i, numFiles) THEN d
      ELSE Rename(d, oldFname, newFname)

\* The renaming loop of rotate, from index i of all (counted from 0) down.
RECURSIVE renameLoop(_, _, _, _, _, _)
renameLoop(d, fileName, all, i, numFiles, compress) ==
  IF i < 0 THEN d
  ELSE renameLoop(renameTurn(d, fileName, all, i, numFiles, compress),
                  fileName, all, i - 1, numFiles, compress)

\* rotate: the directory it leaves behind (the size it returns is the size
\* of index 0 in it).
rotate(d, fileName, numFiles, compress) ==
  LET all == Glob(d, fileName, compress)
      renamed == renameLoop(d, fileName, all, Len(all) - 1, numFiles, compress)
      sourceFname == getLogFileName(fileName, 0, compress)
      targetFname == getLogFileName(fileName, 1, compress)
      sealed == IF compress
                THEN Remove(compressFile(renamed, sourceFname, targetFname),
                            sourceFname)
                ELSE renamed
  IN  openLogFile(sealed, fileName)

\* The most bytes that a write which fails is taken to have written.
MaxShort == 1

\* The numbers of bytes that a write of these bytes which fails may have
\* written, short of the whole.
ShortWrites(bytes) ==
  {n \in 0..MaxShort : n = 0 \/ n < Len(bytes)}

\* The numbers of bytes of the source that a gzip reader may get back from
\* a target that its gzip.Writer did not finish: the beginning of the
\* source, or the whole of it with the trailer missing.
TornLengths(data) == ShortWrites(data) \cup {Len(data)}

(***************************************************************************)
(* Time.  time.Now() is a clock of whole seconds, and tsFormat is one of   *)
(* three layouts: "05" (the second), "04 05" (minute, space, second) and   *)
(* the layout of the tests.                                                *)
(***************************************************************************)
TestLayout == "2006-01-02T15:04:05.000-07:00"

FormatTime(tsFormat, t) ==
  CASE tsFormat = "05" -> TwoDigits(t % 60)
    [] tsFormat = "04 05" -> TwoDigits((t \div 60) % 60) \o <<" ">> \o TwoDigits(t % 60)
    [] tsFormat = TestLayout ->
         <<"2", "0", "2", "4", "-", "0", "1", "-", "0", "1", "T", "0", "0", ":">>
         \o TwoDigits((t \div 60) % 60) \o <<":">> \o TwoDigits(t % 60)
         \o <<".", "0", "0", "0", "+", "0", "0", ":", "0", "0">>

\* formatBytes: <timestamp> <statType> <payload>\n
formatBytes(tsFormat, t, statType, bytes) ==
  FormatTime(tsFormat, t) \o <<" ">> \o statType \o <<" ">> \o bytes \o <<NL>>

\* getBytesToWrite (the maps of the model always serialize).
getBytesToWrite(tsFormat, t, statType, statMap) ==
  formatBytes(tsFormat, t, statType, Marshal(statMap))

(***************************************************************************)
(* The writers (logstats.go).                                              *)
(*                                                                         *)
(* lst is the logStats struct (dedupeLogStats embeds one and its methods   *)
(* read the embedded fields), dedupe tells which constructor made the      *)
(* writer, prevStatsMap is the field of dedupeLogStats, dir the directory  *)
(* of the log files and now the clock.  hist and sealed are history        *)
(* variables: one record per line that a Write appended whole, and the     *)
(* content of index 0 at each rotation.                                    *)
(***************************************************************************)
VARIABLES lst, dedupe, prevStatsMap, dir, now, hist, sealed

(***************************************************************************)
(* Calls in progress.  calls[t] is the call that goroutine t is in: its    *)
(* arguments, its position and its locals.  locks holds the owner of       *)
(* logStats.lock (lst) and of dedupeLogStats.lock (dlst), 0 when free.     *)
(* handles holds the file handles: f is the field lst.f (0 is nil), open the *)
(* handles that are open and next the handle that the next open returns.   *)
(* faulty tells whether file operations can fail at present.  returned is  *)
(* a history variable: one record per call that has returned.              *)
(***************************************************************************)
VARIABLES calls, locks, handles, faulty, returned

callVars == <<calls, locks, handles, faulty, returned>>

writerVars ==
  <<lst, dedupe, prevStatsMap, dir, now, hist, sealed, callVars>>

Threads == {1, 2, 3}

\* A goroutine that is in no call.  In a call, err is the local err and
\* failed the first statement of the call that gave a non-nil error; all
\* and i are the locals of rotate, target and source the files f and r of
\* compressFile (0 before they are opened).  written and index0 are history
\* fields: the number of bytes that the f.Write of the call has added to
\* the file, and what index 0 held when rotate began.
NoCall ==
  [op |-> "none", pc |-> "idle", statType |-> <<>>, statMap |-> EmptyMap,
   bytes |-> <<>>, payload |-> <<>>, err |-> "nil", failed |-> "none",
   f |-> 0, sz |-> 0, hadPrev |-> FALSE, prevMap |-> EmptyMap,
   rotated |-> FALSE, afterClose |-> FALSE, all |-> <<>>, i |-> 0,
   target |-> 0, source |-> 0, written |-> 0, index0 |-> <<>>]

\* No call is in progress, and lst.f is the handle that openLogFile gave
\* the constructor.
NoCalls ==
  /\ calls = [t \in Threads |-> NoCall]
  /\ locks = [lst |-> 0, dlst |-> 0]
  /\ handles = [f |-> 1, open |-> {1}, next |-> 2]
  /\ faulty = FALSE
  /\ returned = <<>>

(***************************************************************************)
(* The reconstruction (reconstruct.go).  sourceFile and outputFile are the *)
(* bytes of the two files; fileReadBuffer, lineBuffer, offset, lineCh,     *)
(* outCh and keyToStatsMap are the locals of ReconstructStatFile, nRead    *)
(* its n and atEOF its err == io.EOF, outputBuffer the local of that name  *)
(* of the parser goroutine and the one of the writer goroutine (the line   *)
(* that the goroutine holds, <<>> when it holds none),                     *)
(* closed the set of the channels closed so far, and pc the position of    *)
(* the reader (the calling goroutine), of the parser and of the writer.    *)
(* globalErr is the error the call returns ("nil" for none).  replayed is  *)
(* a history variable: one record per line given to ReconstructStatLine.   *)
(* queued is a history variable too: the lines that the reader has sent   *)
(* on lineCh, in the order of the sends.                                   *)
(***************************************************************************)
VARIABLES sourceFile, outputFile, fileReadBuffer, lineBuffer, offset, nRead,
          atEOF, lineCh, outCh, closed, keyToStatsMap, outputBuffer, pc,
          replayed, queued, globalErr

pipelineVars ==
  <<sourceFile, outputFile, fileReadBuffer, lineBuffer, offset, nRead, atEOF,
    lineCh, outCh, closed, keyToStatsMap, outputBuffer, pc, replayed, queued,
    globalErr>>

vars == <<writerVars, pipelineVars>>

\* No reconstruction is running.
NoReconstruction ==
  /\ sourceFile = <<>>
  /\ outputFile = <<>>
  /\ fileReadBuffer = <<>>
  /\ lineBuffer = <<>>
  /\ offset = 0
  /\ nRead = 0
  /\ atEOF = FALSE
  /\ lineCh = <<>>
  /\ outCh = <<>>
  /\ closed = {}
  /\ keyToStatsMap = EmptyMap
  /\ outputBuffer = [parser |-> <<>>, writer |-> <<>>]
  /\ pc = [reader |-> "idle", parser |-> "idle", writer |-> "idle"]
  /\ replayed = <<>>
  /\ queued = <<>>
  /\ globalErr = "nil"

\* Index 0 of the writer.
ActiveName == getLogFileName(lst.fileName, 0, FALSE)

\* NewLogStats / NewDedupeLogStats over the directory dir0, followed, when
\* compress is FALSE, by disableCompression.
NewLogStats(isDedupe, dir0, fileName, sizeLimit, numFiles, tsFormat, compress) ==
  /\ numFiles <= MAX_NUM_FILES
  /\ numFiles >= 1
  /\ HasSuffix(fileName, DotLog)
  /\ dir = openLogFile(dir0, fileName)
  /\ lst = [fileName |-> fileName, sizeLimit |-> sizeLimit,
            numFiles |-> numFiles, tsFormat |-> tsFormat,
            sz |-> FileSize(openLogFile(dir0, fileName),
                            getLogFileName(fileName, 0, FALSE)),
            compress |-> compress, closed |-> FALSE, durable |-> FALSE]
  /\ dedupe = isDedupe
  /\ prevStatsMap = EmptyMap
  /\ now = 0
  /\ hist = <<>>
  /\ sealed = <<>>
  /\ NoCalls

\* The size a writer would track if it read a size that Write never updates.
needsRotation_StaleSize == 0 >= lst.sizeLimit

needsRotation == lst.sz >= lst.sizeLimit

\* rotateIfNeeded: the directory and the tracked size it leaves.
rotateIfNeeded ==
  IF needsRotation
  THEN LET d == rotate(dir, lst.fileName, lst.numFiles, lst.compress)
       IN  [dir |-> d, sz |-> FileSize(d, ActiveName)]
  ELSE [dir |-> dir, sz |-> lst.sz]

\* A write that enforces the limit as a hard one: only the bytes that fit.
writeToFile_HardLimit(d, bytes) ==
  LET room == lst.sizeLimit - Len(d[ActiveName].data)
      n == IF room < 0 THEN 0 ELSE IF room > Len(bytes) THEN Len(bytes) ELSE room
  IN  PutFile(d, ActiveName,
              Plain(d[ActiveName].data \o SubSeq(bytes, 1, n)))

\* writeToFile on the handle of index 0: the bytes are appended.
writeToFile(d, bytes) ==
  PutFile(d, ActiveName, Plain(d[ActiveName].data \o bytes))

\* What a Write that returned nil leaves in the history.
Written(statType, statMap, bytes, payload, hadPrev, prevMap) ==
  [statType |-> statType, statMap |-> statMap, bytes |-> bytes,
   payload |-> payload, rotated |-> needsRotation, hadPrev |-> hadPrev,
   prevMap |-> prevMap]

\* rotateIfNeeded followed by writeAndCommit(bytes).
Commit(bytes) ==
  LET r == rotateIfNeeded
  IN  /\ dir' = writeToFile(r.dir, bytes)
      /\ lst' = [lst EXCEPT !.sz = r.sz + Len(bytes)]
      /\ sealed' = IF needsRotation THEN Append(sealed, dir[ActiveName].data)
                   ELSE sealed
      /\ now' = now + 1

\* logStats.Write
Write(statType, statMap) ==
  /\ ~dedupe
  /\ ~lst.closed
  /\ LET payload == Marshal(statMap)
         bytes == formatBytes(lst.tsFormat, now, statType, payload)
     IN  /\ Commit(bytes)
         /\ hist' = Append(hist, Written(statType, statMap, bytes, payload,
                                         FALSE, EmptyMap))
  /\ UNCHANGED <<dedupe, prevStatsMap>>

\* A reset that leaves the baselines in place.
resetPrevStatsMap_Skipped == prevStatsMap

resetPrevStatsMap == EmptyMap

\* dedupeLogStats.Write
DedupeWrite(statType, statMap) ==
  /\ dedupe
  /\ ~lst.closed
  /\ LET prevs == IF needsRotation THEN resetPrevStatsMap ELSE prevStatsMap
         ok == statType \in DOMAIN prevs
         prevMap == IF ok THEN prevs[statType] ELSE EmptyMap
         filteredMap == populateFilteredMap(prevMap, statMap)
         payload == IF ok THEN Marshal(filteredMap) ELSE Marshal(statMap)
         bytes == formatBytes(lst.tsFormat, now, statType, payload)
     IN  /\ prevStatsMap' = MapSet(prevs, statType, statMap)
         /\ Commit(bytes)
         /\ hist' = Append(hist, Written(statType, statMap, bytes, payload,
                                         ok, prevMap))
  /\ UNCHANGED dedupe

(***************************************************************************)
(* The deduplicating writer and the stat maps it is given.                 *)
(***************************************************************************)
K1 == <<"k", "1">>
K2 == <<"k", "2">>
K3 == <<"k", "3">>

TypeA == <<"A">>
TypeB == <<"B">>

\* 2^53 + 1, the least integer float64 cannot hold.
Big == Num(FALSE, 2 ^ 26, 1)

StatBase == (K1 :> Int64(Small(10))) @@ (K2 :> String(<<"V", "2">>))

\* StatBase with only k1 changed, with only k2 changed, with a key added,
\* with k2 gone, and with k1 the same number in another type.
StatK1 == (K1 :> Int64(Small(99))) @@ (K2 :> String(<<"V", "2">>))
StatK2 == (K1 :> Int64(Small(10))) @@ (K2 :> String(<<"C", "V">>))
StatMore == StatBase @@ (K3 :> Bool(TRUE))
StatLess == (K1 :> Int64(Small(10)))
StatUint == (K1 :> Uint64(Small(10))) @@ (K2 :> String(<<"V", "2">>))

\* A number beyond 2^53, and a string holding a bracket.
StatBig == (K1 :> Int64(Big)) @@ (K2 :> String(<<"V", "2">>))
StatBracket == (K1 :> Int64(Small(10))) @@ (K2 :> String(<<"}">>))

DedupeInputs ==
  ({TypeA} \X {StatBase, StatK1, StatK2, StatMore, StatLess, StatUint,
               StatBig, StatBracket})
  \cup ({TypeB} \X {StatBase, StatK1})

\* An active segment left by an earlier run.
OldLine == formatBytes("05", 59, TypeA, Marshal(StatK2))

OldDir ==
  PutFile(EmptyDir, getLogFileName(LogFileName, 0, FALSE), Plain(OldLine))

Init ==
  /\ \E dir0 \in {EmptyDir, OldDir}, sizeLimit \in {40, 1000} :
       NewLogStats(TRUE, dir0, LogFileName, sizeLimit, 2, "05", TRUE)
  /\ NoReconstruction

MaxWrites == 4

Next ==
  /\ Len(hist) < MaxWrites
  /\ \E in \in DedupeInputs : DedupeWrite(in[1], in[2])
  /\ UNCHANGED callVars
  /\ UNCHANGED pipelineVars

Spec == Init /\ [][Next]_vars

(***************************************************************************)
(* Replaying a segment: its newline-terminated lines, and the lines        *)
(* ReconstructStatLine makes of them when applied in order to one          *)
(* map of states that starts empty (the loop of the parser stage of        *)
(* ReconstructStatFile).                                                   *)
(***************************************************************************)
\* The positions of the newlines of data.
Newlines(data) == {i \in 1..Len(data) : data[i] = NL}

\* The lines of data that a newline ends, each without its newline.
LinesOf(data) ==
  LET nl == Newlines(data)
      end(k) == CHOOSE p \in nl : Cardinality({q \in nl : q < p}) = k - 1
      start(k) == IF k = 1 THEN 1 ELSE end(k - 1) + 1
  IN  [k \in 1..Cardinality(nl) |-> SubSeq(data, start(k), end(k) - 1)]

\* The outputs of ReconstructStatLine on the lines in turn, one map being
\* handed from call to call; a call that panics ends the process, so there
\* is no output for its line nor for the lines after it.
RECURSIVE Replay(_, _)
Replay(statsMap, lines) ==
  IF Len(lines) = 0 THEN <<>>
  ELSE LET r == ReconstructStatLine(statsMap, Head(lines))
       IN  IF r.panicked THEN <<>>
           ELSE <<r.out>> \o Replay(r.map, Tail(lines))

\* The line a record of the history would be with its full stat map as
\* payload (without the newline).
FullLine(h) ==
  SubSeq(h.bytes, 1, Len(h.bytes) - Len(h.payload) - 1) \o Marshal(h.statMap)

IsScalar(v) == v.k \in {"int64", "uint64", "bool", "string"}

ScalarOnly(statMap) == \A k \in DOMAIN statMap : IsScalar(statMap[k])

\* Record i of the history is the first of its type since the construction
\* or since the last rotation.
FirstOfType(i) ==
  ~ \E j \in 1..(i - 1) :
       /\ hist[j].statType = hist[i].statType
       /\ \A k \in (j + 1)..i : ~hist[k].rotated

\* Record j is the write of hist[i]'s type that precedes record i.
PrecedingOfType(j, i) ==
  /\ j < i
  /\ hist[j].statType = hist[i].statType
  /\ \A k \in (j + 1)..(i - 1) : hist[k].statType # hist[i].statType

NoKeyRemoved ==
  \A i \in 1..Len(hist) : \A j \in 1..Len(hist) :
    PrecedingOfType(j, i) => DOMAIN hist[j].statMap \subseteq DOMAIN hist[i].statMap

\* The active segment holds the lines of the history and nothing else: the
\* writer started on an empty directory and has not rotated.
OneSegment ==
  /\ sealed = <<>>
  /\ dir[ActiveName].data = Concat([i \in 1..Len(hist) |-> hist[i].bytes])

\* Two writes have shared a baseline: the second emitted a delta.
C1_Reached ==
  /\ dedupe /\ OneSegment /\ NoKeyRemoved
  /\ \E i \in 1..Len(hist) :
       hist[i].hadPrev /\ hist[i].payload # Marshal(hist[i].statMap)

\* C1: when the writes were deduplicating writes of scalar-only stat maps
\* into one segment, with no rotation and no key removed between
\* consecutive writes of a type, replaying the segment gives, record by
\* record, the lines carrying the original stat maps.
C1_RoundTrip ==
  (/\ dedupe
   /\ OneSegment
   /\ NoKeyRemoved
   /\ \A i \in 1..Len(hist) : ScalarOnly(hist[i].statMap))
  => Replay(EmptyMap, LinesOf(dir[ActiveName].data))
       = [i \in 1..Len(hist) |-> FullLine(hist[i])]

\* C2: the first write of a type since the construction or since the last
\* rotation carries the whole stat map.
C2_FirstWriteIsFull ==
  \A i \in 1..Len(hist) :
    FirstOfType(i) => hist[i].payload = Marshal(hist[i].statMap)

\* A type written before a rotation is written again as the first of its
\* type after it, by a write that did not itself rotate, and the delta
\* against its old baseline would have been shorter.
C2_Witness ==
  \E i \in 1..Len(hist) : \E j \in 1..(i - 1) : \E k \in (j + 1)..(i - 1) :
    /\ hist[k].rotated
    /\ ~hist[i].rotated
    /\ FirstOfType(i)
    /\ hist[j].statType = hist[i].statType
    /\ Marshal(populateFilteredMap(hist[j].statMap, hist[i].statMap))
         # Marshal(hist[i].statMap)

\* The delta the claim describes: the keys of curr absent from prev or
\* holding another value there, with their value in curr.
ChangedKeys(prev, curr) ==
  [k \in {x \in DOMAIN curr : x \notin DOMAIN prev \/ prev[x] # curr[x]} |->
     curr[k]]

\* C3: a write that finds a baseline for its type, both holding scalars
\* only, emits exactly the changed and the new keys.
C3_DeltaOfScalars ==
  \A i \in 1..Len(hist) :
    (/\ hist[i].hadPrev
     /\ ScalarOnly(hist[i].statMap)
     /\ ScalarOnly(hist[i].prevMap))
    => hist[i].payload = Marshal(ChangedKeys(hist[i].prevMap, hist[i].statMap))

\* The scenario of the tests: a write changing only k1 emits k1 alone, and
\* the next, changing only k2, emits k2 alone.
C3_Witness ==
  /\ Len(hist) >= 3
  /\ \A i \in 1..3 : hist[i].statType = TypeA
  /\ hist[1].statMap = StatK1 /\ hist[2].statMap = StatBase
  /\ hist[3].statMap = StatK2
  /\ hist[2].hadPrev /\ hist[3].hadPrev
  /\ hist[2].payload = Marshal((K1 :> Int64(Small(10))))
  /\ hist[3].payload = Marshal((K2 :> String(<<"C", "V">>)))

(***************************************************************************)
(* Rotation: either writer, on an empty directory, with one to MaxFiles    *)
(* files, compression on or off, and lines shorter and longer than the     *)
(* size limit.                                                             *)
(***************************************************************************)
MaxFiles == 3

MaxRotationWrites == 6

InitRotation ==
  /\ \E isDedupe \in BOOLEAN, numFiles \in 1..MaxFiles, compress \in BOOLEAN :
       NewLogStats(isDedupe, EmptyDir, LogFileName, 20, numFiles, "05",
                   compress)
  /\ NoReconstruction

NextRotation ==
  /\ Len(hist) < MaxRotationWrites
  /\ \E statMap \in {StatLess, StatK2} :
       \/ Write(TypeA, statMap)
       \/ DedupeWrite(TypeA, statMap)
  /\ UNCHANGED callVars
  /\ UNCHANGED pipelineVars

SpecRotation == InitRotation /\ [][NextRotation]_vars

\* The lines of records a..Len(hist) of the history, in write order.
WrittenFrom(a) ==
  Concat([i \in 1..(Len(hist) + 1 - a) |-> hist[a + i - 1].bytes])

\* The names of the segments, highest number first.
RECURSIVE OldestFirst(_)
OldestFirst(S) ==
  IF S = {} THEN <<>>
  ELSE LET last == CHOOSE x \in S : \A y \in S : x.num >= y.num
       IN  <<last>> \o OldestFirst(S \ {last})

\* What reading the segments from the highest number down to 0 gives (a
\* .gz segment read through a gzip reader).
RetainedBytes ==
  LET names == OldestFirst(DOMAIN dir)
  IN  Concat([i \in 1..Len(names) |-> dir[names[i]].data])

\* C4: the number of segment files never exceeds numFiles.
C4_SegmentCount == Cardinality(DOMAIN dir) <= lst.numFiles

\* C5: every segment holds whole lines of the history and nothing else, and
\* the line of the last write is in the active segment and in no other,
\* whatever its length.
C5_WholeLines ==
  /\ \A f \in DOMAIN dir :
       \E a \in 1..(Len(hist) + 1) : \E b \in (a - 1)..Len(hist) :
         dir[f].data = Concat([i \in 1..(b + 1 - a) |-> hist[a + i - 1].bytes])
  /\ Len(hist) > 0 =>
       LET h == hist[Len(hist)]
           active == dir[ActiveName].data
       IN  /\ Len(active) >= Len(h.bytes)
           /\ Suffix(active, Len(active) + 1 - Len(h.bytes)) = h.bytes
           /\ \A f \in (DOMAIN dir) \ {ActiveName} :
                \A l \in 1..Len(LinesOf(dir[f].data)) :
                  Append(LinesOf(dir[f].data)[l], NL) # h.bytes

\* A line longer than the limit was written into an empty active segment,
\* and another write pushed a segment over the limit.
C5_Witness ==
  /\ \E i \in 1..Len(hist) :
       /\ Len(hist[i].bytes) > lst.sizeLimit
       /\ hist[i].rotated
  /\ \E f \in DOMAIN dir :
       /\ Len(LinesOf(dir[f].data)) = 2
       /\ Len(dir[f].data) > lst.sizeLimit
       /\ Len(LinesOf(dir[f].data)[1]) + 1 < lst.sizeLimit

\* C6: the retained segments, read from the highest number down to 0, hold
\* a suffix of the lines written, in write order; all of them while fewer
\* than numFiles rotations have occurred.
C6_RetainedSuffix ==
  /\ \E a \in 1..(Len(hist) + 1) : RetainedBytes = WrittenFrom(a)
  /\ Len(sealed) < lst.numFiles => RetainedBytes = WrittenFrom(1)

\* Three segments are kept, the oldest lines have been dropped and every
\* index has been renamed onto.
C6_Witness ==
  /\ lst.numFiles = 3
  /\ Cardinality(DOMAIN dir) = 3
  /\ Len(sealed) >= 4
  /\ RetainedBytes # WrittenFrom(1)
  /\ \E a \in 2..Len(hist) : RetainedBytes = WrittenFrom(a)

\* C8: with compression, index 0 is a plain file and every other segment is
\* a .gz file holding, compressed, what index 0 held when it was sealed.
C8_SealedAreGzip ==
  lst.compress =>
    /\ ActiveName \in DOMAIN dir
    /\ ~dir[ActiveName].gz
    /\ \A f \in (DOMAIN dir) \ {ActiveName} :
         /\ f.num >= 1 /\ f.gz
         /\ dir[f].gz
         /\ f.num <= Len(sealed)
         /\ dir[f].data = sealed[Len(sealed) + 1 - f.num]

\* Two sealed segments of different content exist beside index 0.
C8_Witness ==
  /\ lst.compress
  /\ \E f, g \in DOMAIN dir :
       /\ f.num = 1 /\ g.num = 2
       /\ dir[f].gz /\ dir[g].gz
       /\ dir[f].data # dir[g].data
       /\ Len(dir[ActiveName].data) > 0

(***************************************************************************)
(* The rotation test (TestLogStatsRotation): a plain writer with size      *)
(* limit 128 and 4 files, compression disabled, the layout of the tests,   *)
(* and five writes of getSimpleStat(seed) with distinct seeds, type        *)
(* kStats.                                                                 *)
(***************************************************************************)
ScenarioSizeLimit == 128

ScenarioNumFiles == 4

ScenarioWrites == 5

kStats == <<"k", "S", "t", "a", "t", "s">>

Value(n) == <<"V", "a", "l", "u", "e">> \o MagDigits(0, n)

getSimpleStat(seed) ==
  (K1 :> Int64(Small(seed + 10)))
  @@ (K2 :> String(Value(seed + 2)))
  @@ (K3 :> Map((<<"k", "3", "1">> :> Int64(Small(300 * seed + 10)))
                @@ (<<"k", "3", "2">> :> String(Value(30 * seed + 2)))))

InitScenario ==
  /\ NewLogStats(FALSE, EmptyDir, LogFileName, ScenarioSizeLimit,
                 ScenarioNumFiles, TestLayout, FALSE)
  /\ NoReconstruction

NextScenario ==
  /\ Len(hist) < ScenarioWrites
  /\ \E seed \in 0..(ScenarioWrites - 1) :
       /\ \A i \in 1..Len(hist) : hist[i].statMap # getSimpleStat(seed)
       /\ Write(kStats, getSimpleStat(seed))
  /\ UNCHANGED callVars
  /\ UNCHANGED pipelineVars

SpecScenario == InitScenario /\ [][NextScenario]_vars

ScenarioDone ==
  /\ Len(hist) = ScenarioWrites
  /\ \A i \in 1..Len(hist) :
       /\ Len(hist[i].bytes) >= 92
       /\ Len(hist[i].bytes) <= 97

\* C7 as stated: after the five writes four segment files remain, and their
\* lines, oldest first, are the five lines written.
C7_FourSegments ==
  ScenarioDone =>
    /\ Cardinality(DOMAIN dir) = 4
    /\ RetainedBytes = WrittenFrom(1)

\* C7 amended: after the five writes three segment files remain (the third
\* and the fifth write rotate), and their lines, oldest first, are the five
\* lines written, each carrying its stat map.
C7_ThreeSegments ==
  ScenarioDone =>
    /\ Cardinality(DOMAIN dir) = 3
    /\ DOMAIN dir = {getLogFileName(lst.fileName, n, FALSE) : n \in 0..2}
    /\ RetainedBytes = WrittenFrom(1)
    /\ \A i \in 1..Len(hist) : hist[i].payload = Marshal(hist[i].statMap)
    /\ \A i \in 1..Len(hist) : hist[i].rotated <=> i \in {3, 5}

\* The test itself: seeds 0 to 4 in order.
C7_Witness ==
  /\ ScenarioDone
  /\ \A i \in 1..Len(hist) : hist[i].statMap = getSimpleStat(i - 1)
  /\ Len(hist[1].bytes) = 92

(***************************************************************************)
(* The parser stage alone: ReconstructStatLine applied to one line after   *)
(* another with the one keyToStatsMap of a file.  The stat lines are made  *)
(* of a timestamp, a stat type and a snapshot, as a writer formats them,   *)
(* all those of a file in one layout, without or with a space; the other   *)
(* lines are a line that is no candidate, one whose string holds a         *)
(* bracket, one that ends in an opening bracket, one with mismatched       *)
(* brackets, one without the space before the payload and one whose        *)
(* payload is no JSON.                                                     *)
(***************************************************************************)
NoWriter == NewLogStats(FALSE, EmptyDir, LogFileName, 1, 1, "05", FALSE)

\* Snapshots as json.Unmarshal gives them: every number a float64.
SnapBase == (K1 :> Float64(Small(10))) @@ (K2 :> String(<<"V", "2">>))
SnapK1 == (K1 :> Float64(Small(99)))
SnapK2 == (K2 :> String(<<"C", "V">>))
SnapNested ==
  (K1 :> Float64(Small(10))) @@ (K3 :> Map((K1 :> Float64(Small(1)))))

Stamps ==
  {FormatTime("05", 5), FormatTime("04 05", 605), FormatTime("04 05", 606)}

StatLineInputs ==
  Stamps \X (({TypeA} \X {SnapBase, SnapK1, SnapK2, SnapNested})
             \cup ({TypeB} \X {SnapBase, SnapK1}))

\* formatBytes without the newline: the line as the reader hands it on.
StatSource(ts, statType, snap) ==
  ts \o <<" ">> \o statType \o <<" ">> \o Marshal(snap)

RawLines ==
  { <<>>,
    <<"x">>,
    StatSource(FormatTime("05", 5), TypeA, (K2 :> String(<<"}">>))),
    <<"1", "{">>,
    FormatTime("05", 5) \o <<" ">> \o TypeA \o <<" ", "[", "}">>,
    FormatTime("05", 5) \o <<" ">> \o TypeA \o <<"{", "}">>,
    FormatTime("05", 5) \o <<" ">> \o TypeA \o <<" ", "{", "x", "}">> }

InitReplay ==
  /\ NoWriter
  /\ NoReconstruction

MaxReplayed == 3

\* One call of ReconstructStatLine by the parser; a panic ends the process.
ParseLine(source, stat, ts, statType, snap) ==
  LET r == ReconstructStatLine(keyToStatsMap, source)
  IN  /\ pc.parser = "idle"
      /\ Len(replayed) < MaxReplayed
      /\ keyToStatsMap' = r.map
      /\ pc' = IF r.panicked THEN [pc EXCEPT !.parser = "crashed"] ELSE pc
      /\ replayed' = Append(replayed,
                            [source |-> source, out |-> r.out, stat |-> stat,
                             ts |-> ts, statType |-> statType, snap |-> snap,
                             panicked |-> r.panicked])
      /\ UNCHANGED queued
      /\ UNCHANGED <<sourceFile, outputFile, fileReadBuffer, lineBuffer,
                     offset, nRead, atEOF, lineCh, outCh, closed,
                     outputBuffer>>
      /\ UNCHANGED globalErr
      /\ UNCHANGED writerVars

NextReplay ==
  \/ \E in \in StatLineInputs :
       /\ \A i \in 1..Len(replayed) :
            replayed[i].stat => Len(replayed[i].ts) = Len(in[1])
       /\ ParseLine(StatSource(in[1], in[2][1], in[2][2]), TRUE,
                    in[1], in[2][1], in[2][2])
  \/ \E source \in RawLines : ParseLine(source, FALSE, <<>>, <<>>, EmptyMap)

SpecReplay == InitReplay /\ [][NextReplay]_vars

\* The merge of the claim: the decoded snapshot plus the keys of the state
\* that it lacks.
MergedSnapshot(state, snap) ==
  [k \in (DOMAIN state) \cup (DOMAIN snap) |->
     IF k \in DOMAIN snap THEN snap[k] ELSE state[k]]

\* The Reconstruction State of stat type T after the first i lines, by the
\* claim: known once a stat line of type T has been seen.
RECURSIVE StateOfType(_, _)
StateOfType(T, i) ==
  IF i = 0 THEN [known |-> FALSE, m |-> EmptyMap]
  ELSE LET before == StateOfType(T, i - 1)
           h == replayed[i]
       IN  IF ~h.stat \/ h.statType # T THEN before
           ELSE IF before.known
                THEN [known |-> TRUE, m |-> MergedSnapshot(before.m, h.snap)]
                ELSE [known |-> TRUE, m |-> h.snap]

\* C9: a stat line of a type without state comes out unchanged; one of a
\* type with state comes out as its prefix, verbatim, followed by the
\* serialization of its snapshot merged with that state, and the merge is
\* the state that the following lines of the type meet.
C9_ReplayMerge ==
  \A i \in 1..Len(replayed) :
    replayed[i].stat =>
      LET h == replayed[i]
          before == StateOfType(h.statType, i - 1)
      IN  IF before.known
          THEN h.out = h.ts \o <<" ">> \o h.statType \o <<" ">>
                       \o Marshal(MergedSnapshot(before.m, h.snap))
          ELSE h.out = h.source

\* C13: whatever the line, the parser does not abort on it, and a line that
\* is no decodable stat line comes out unchanged.
C13_NeverAborts ==
  \A i \in 1..Len(replayed) :
    /\ ~replayed[i].panicked
    /\ ~replayed[i].stat => replayed[i].out = replayed[i].source

(***************************************************************************)
(* ReconstructStatFile: the reader (the calling goroutine), the parser and *)
(* the writer goroutines, joined by the channels lineCh and outCh.  The    *)
(* read buffer has ChunkSize bytes where the code has 1024 and a channel   *)
(* holds QueueCap lines where the code's holds 10000; no read and no write *)
(* fails.  A panic of the parser ends the process: every pc is "crashed".  *)
(***************************************************************************)
ChunkSize == 8

QueueCap == 2

MaxLines == 3

\* The lines of the source files: a full stat line, a delta of the same
\* type, a line that is no candidate and a line that makes the parser panic.
SourceLines ==
  { StatSource(FormatTime("05", 5), TypeA, SnapBase),
    StatSource(FormatTime("05", 6), TypeA, SnapK1),
    <<"x">>,
    <<"1", "{">> }

\* The source files: up to MaxLines lines, each ended by a newline, and
\* then nothing or the beginning of a line that no newline ends.
SourceFiles ==
  { Concat([i \in 1..Len(lines) |-> lines[i] \o <<NL>>]) \o tail :
      lines \in UNION {[1..k -> SourceLines] : k \in 0..MaxLines},
      tail \in {<<>>, <<"0">>} }

\* The call ReconstructStatFile(sourceFile, outputFile) on one of the given
\* source files and an empty output file, its goroutines started.
StartReconstruct(files) ==
  /\ NoWriter
  /\ sourceFile \in files
  /\ outputFile = <<>>
  /\ fileReadBuffer = <<>>
  /\ lineBuffer = <<>>
  /\ offset = 0
  /\ nRead = 0
  /\ atEOF = FALSE
  /\ lineCh = <<>>
  /\ outCh = <<>>
  /\ closed = {}
  /\ keyToStatsMap = EmptyMap
  /\ outputBuffer = [parser |-> <<>>, writer |-> <<>>]
  /\ pc = [reader |-> "read", parser |-> "recv", writer |-> "recv"]
  /\ replayed = <<>>
  /\ queued = <<>>
  /\ globalErr = "nil"

InitReconstruct == StartReconstruct(SourceFiles)

Crashed == [reader |-> "crashed", parser |-> "crashed", writer |-> "crashed"]

\* A channel that hands out first what was sent last.
Send_Front(ch, v) == <<v>> \o ch

\* ch <- v on a channel with room: receivers take the head.
Send(ch, v) == Append(ch, v)

\* sourceFile.ReadAt(fileReadBuffer, offset) into a fresh buffer: the bytes
\* read, then the zero bytes the buffer was made with; io.EOF when fewer
\* bytes than the buffer holds were read.
ReadAt ==
  LET left == Len(sourceFile) - offset
      got == IF left < ChunkSize THEN left ELSE ChunkSize
  IN  /\ pc.reader = "read"
      /\ nRead' = got
      /\ atEOF' = (got < ChunkSize)
      /\ fileReadBuffer' = SubSeq(sourceFile, offset + 1, offset + got)
                           \o [i \in 1..(ChunkSize - got) |-> NUL]
      /\ pc' = [pc EXCEPT !.reader = "scan"]
      /\ UNCHANGED <<sourceFile, outputFile, lineBuffer, offset, lineCh,
                     outCh, closed, keyToStatsMap, outputBuffer, replayed,
                 queued>>
      /\ UNCHANGED globalErr
      /\ UNCHANGED writerVars

parseBufferTillNewLine(sourceBuffer) ==
  LET newlines == {i \in 1..Len(sourceBuffer) : sourceBuffer[i] = NL}
      first == CHOOSE i \in newlines : \A j \in newlines : i <= j
  IN  IF newlines = {}
      THEN [completeLine |-> FALSE, outputBuffer |-> sourceBuffer]
      ELSE [completeLine |-> TRUE,
            outputBuffer |-> SubSeq(sourceBuffer, 1, first - 1)]

\* One turn of the loop over fileReadBuffer; the send waits for room.
ScanBuffer ==
  LET r == parseBufferTillNewLine(fileReadBuffer)
      lenOfCharsParsed ==
        Len(r.outputBuffer) + (IF r.completeLine THEN 1 ELSE 0)
  IN  /\ pc.reader = "scan"
      /\ Len(fileReadBuffer) > 0
      /\ r.completeLine => Len(lineCh) < QueueCap
      /\ lineCh' = IF r.completeLine
                   THEN Send(lineCh, lineBuffer \o r.outputBuffer)
                   ELSE lineCh
      /\ lineBuffer' = IF r.completeLine THEN <<>>
                       ELSE lineBuffer \o r.outputBuffer
      /\ queued' = IF r.completeLine
                   THEN Append(queued, lineBuffer \o r.outputBuffer)
                   ELSE queued
      /\ fileReadBuffer' = Suffix(fileReadBuffer, lenOfCharsParsed + 1)
      /\ UNCHANGED <<sourceFile, outputFile, offset, nRead, atEOF, outCh,
                     closed, keyToStatsMap, outputBuffer, pc, replayed>>
      /\ UNCHANGED globalErr
      /\ UNCHANGED writerVars

\* The end of the loop over fileReadBuffer: on to the next chunk, or out of
\* the reading loop at io.EOF.
ChunkDone ==
  /\ pc.reader = "scan"
  /\ Len(fileReadBuffer) = 0
  /\ offset' = offset + nRead
  /\ pc' = [pc EXCEPT !.reader = IF atEOF THEN "close" ELSE "read"]
  /\ UNCHANGED <<sourceFile, outputFile, fileReadBuffer, lineBuffer, nRead,
                 atEOF, lineCh, outCh, closed, keyToStatsMap, outputBuffer,
                 replayed,
                 queued>>
  /\ UNCHANGED globalErr
  /\ UNCHANGED writerVars

\* close(lineCh)
CloseLineCh ==
  /\ pc.reader = "close"
  /\ closed' = closed \cup {"lineCh"}
  /\ pc' = [pc EXCEPT !.reader = "wait"]
  /\ UNCHANGED <<sourceFile, outputFile, fileReadBuffer, lineBuffer, offset,
                 nRead, atEOF, lineCh, outCh, keyToStatsMap, outputBuffer,
                 replayed,
                 queued>>
  /\ UNCHANGED globalErr
  /\ UNCHANGED writerVars

\* closeWait.Wait() and the return.
WaitAndReturn ==
  /\ pc.reader = "wait"
  /\ pc.parser = "done"
  /\ pc.writer = "done"
  /\ pc' = [pc EXCEPT !.reader = "returned"]
  /\ UNCHANGED <<sourceFile, outputFile, fileReadBuffer, lineBuffer, offset,
                 nRead, atEOF, lineCh, outCh, closed, keyToStatsMap,
                 outputBuffer, replayed,
                 queued>>
  /\ UNCHANGED globalErr
  /\ UNCHANGED writerVars

\* The parser takes a line and reconstructs it.
ParserReceive ==
  LET r == ReconstructStatLine(keyToStatsMap, Head(lineCh))
  IN  /\ pc.parser = "recv"
      /\ Len(lineCh) > 0
      /\ lineCh' = Tail(lineCh)
      /\ keyToStatsMap' = r.map
      /\ outputBuffer' = [outputBuffer EXCEPT !.parser =
                             IF r.panicked THEN <<>> ELSE r.out \o <<NL>>]
      /\ pc' = IF r.panicked THEN Crashed ELSE [pc EXCEPT !.parser = "send"]
      /\ UNCHANGED <<sourceFile, outputFile, fileReadBuffer, lineBuffer,
                     offset, nRead, atEOF, outCh, closed, replayed,
                 queued>>
      /\ UNCHANGED globalErr
      /\ UNCHANGED writerVars

\* outCh <- outputBuffer
ParserSend ==
  /\ pc.parser = "send"
  /\ Len(outCh) < QueueCap
  /\ outCh' = Send(outCh, outputBuffer.parser)
  /\ outputBuffer' = [outputBuffer EXCEPT !.parser = <<>>]
  /\ pc' = [pc EXCEPT !.parser = "recv"]
  /\ UNCHANGED <<sourceFile, outputFile, fileReadBuffer, lineBuffer, offset,
                 nRead, atEOF, lineCh, closed, keyToStatsMap, replayed,
                 queued>>
  /\ UNCHANGED globalErr
  /\ UNCHANGED writerVars

\* The range over lineCh ends; close(outCh).
ParserDone ==
  /\ pc.parser = "recv"
  /\ Len(lineCh) = 0
  /\ "lineCh" \in closed
  /\ closed' = closed \cup {"outCh"}
  /\ pc' = [pc EXCEPT !.parser = "done"]
  /\ UNCHANGED <<sourceFile, outputFile, fileReadBuffer, lineBuffer, offset,
                 nRead, atEOF, lineCh, outCh, keyToStatsMap, outputBuffer,
                 replayed,
                 queued>>
  /\ UNCHANGED globalErr
  /\ UNCHANGED writerVars

\* for outputBuffer := range outCh: the writer takes a line out of outCh,
\* which has room again at once; the line is not in the file yet.
WriterReceive ==
  /\ pc.writer = "recv"
  /\ Len(outCh) > 0
  /\ outputBuffer' = [outputBuffer EXCEPT !.writer = Head(outCh)]
  /\ outCh' = Tail(outCh)
  /\ pc' = [pc EXCEPT !.writer = "write"]
  /\ UNCHANGED <<sourceFile, outputFile, fileReadBuffer, lineBuffer, offset,
                 nRead, atEOF, lineCh, closed, keyToStatsMap, replayed,
                 queued>>
  /\ UNCHANGED globalErr
  /\ UNCHANGED writerVars

\* outputFile.Write(outputBuffer) returns no error: the line that the
\* writer holds is appended to the output file, and the writer goes back to
\* the range over outCh.
WriterWrite ==
  /\ pc.writer = "write"
  /\ outputFile' = outputFile \o outputBuffer.writer
  /\ outputBuffer' = [outputBuffer EXCEPT !.writer = <<>>]
  /\ pc' = [pc EXCEPT !.writer = "recv"]
  /\ UNCHANGED <<sourceFile, fileReadBuffer, lineBuffer, offset, nRead,
                 atEOF, lineCh, outCh, closed, keyToStatsMap, replayed,
                 queued>>
  /\ UNCHANGED globalErr
  /\ UNCHANGED writerVars

\* The range over outCh ends.
WriterDone ==
  /\ pc.writer = "recv"
  /\ Len(outCh) = 0
  /\ "outCh" \in closed
  /\ pc' = [pc EXCEPT !.writer = "done"]
  /\ UNCHANGED <<sourceFile, outputFile, fileReadBuffer, lineBuffer, offset,
                 nRead, atEOF, lineCh, outCh, closed, keyToStatsMap,
                 outputBuffer, replayed,
                 queued>>
  /\ UNCHANGED globalErr
  /\ UNCHANGED writerVars

NextReconstruct ==
  \/ ReadAt
  \/ ScanBuffer
  \/ ChunkDone
  \/ CloseLineCh
  \/ WaitAndReturn
  \/ ParserReceive
  \/ ParserSend
  \/ ParserDone
  \/ WriterReceive
  \/ WriterWrite
  \/ WriterDone

SpecReconstruct == InitReconstruct /\ [][NextReconstruct]_vars

\* The transformation of the newline-terminated lines of the source, in
\* their order, and the bytes that the first k of them make in a file.
Transformed == Replay(EmptyMap, LinesOf(sourceFile))

FirstOf(lines, k) == Concat([i \in 1..k |-> lines[i] \o <<NL>>])

FirstTransformed(k) == FirstOf(Transformed, k)

\* C10: whatever the interleaving of reader, parser and writer, the lines in
\* the output file are the transformations of the first lines of the source,
\* one for one and in their order, and of all its newline-terminated lines
\* once ReconstructStatFile has returned.
C10_OrderPreserved ==
  pc.reader # "idle" =>
    LET lines == Transformed
    IN  /\ \E k \in 0..Len(lines) : outputFile = FirstOf(lines, k)
        /\ pc.reader = "returned" => outputFile = FirstOf(lines, Len(lines))

\* A source of more lines than a channel holds and of several chunks, one
\* of its lines reconstructed, has been written out and the call returned.
C10_Witness ==
  /\ pc.reader = "returned"
  /\ Len(LinesOf(sourceFile)) > QueueCap
  /\ Len(sourceFile) > ChunkSize
  /\ Transformed # LinesOf(sourceFile)
  /\ outputFile = FirstTransformed(Len(Transformed))
  /\ outputFile # sourceFile

(***************************************************************************)
(* Scheduling: the Go scheduler lets every goroutine that can take a step  *)
(* take one eventually, which is weak fairness of the steps of the reader, *)
(* of the parser and of the writer.                                        *)
(***************************************************************************)
Reader == ReadAt \/ ScanBuffer \/ ChunkDone \/ CloseLineCh \/ WaitAndReturn

\* The step ParserReceive as pc shows it: ParserReceive can be taken exactly
\* when this can, and of the steps of NextReconstruct it alone moves the
\* parser from "recv" to "send" or ends the process.
ParserTakes ==
  /\ pc.parser = "recv"
  /\ Len(lineCh) > 0
  /\ pc' \in {[pc EXCEPT !.parser = "send"], Crashed}

Writer == WriterReceive \/ WriterWrite \/ WriterDone

FairSpecReconstruct ==
  /\ SpecReconstruct
  /\ WF_vars(Reader)
  /\ WF_pc(ParserTakes)
  /\ WF_vars(ParserSend \/ ParserDone)
  /\ WF_vars(Writer)

\* C11: with fair scheduling and no I/O failure, whatever the source file,
\* ReconstructStatFile eventually returns nil, and when it has returned both
\* channels are closed and empty and the writer has written every line.
C11_EventuallyReturnsNil ==
  <>(/\ pc.reader = "returned"
     /\ globalErr = "nil"
     /\ closed = {"lineCh", "outCh"}
     /\ lineCh = <<>>
     /\ outCh = <<>>
     /\ outputFile = FirstTransformed(Len(Transformed)))

(***************************************************************************)
(* I/O failures in ReconstructStatFile: a ReadAt that returns an error     *)
(* other than io.EOF, and a Write to the output file that returns an       *)
(* error.  The source files are those without a line that makes the parser *)
(* panic, and one of two lines more than a channel holds.                  *)
(***************************************************************************)
SoundFiles ==
  {file \in SourceFiles :
     \A i \in 1..Len(LinesOf(file)) : LinesOf(file)[i] # <<"1", "{">>}

ManyLines == Concat([i \in 1..(QueueCap + 2) |-> <<"x", NL>>])

InitFaulty == StartReconstruct(SoundFiles \cup {ManyLines})

\* ReadAt fails: globalErr = err; break.
ReadAtFails ==
  /\ pc.reader = "read"
  /\ globalErr' = "read error"
  /\ pc' = [pc EXCEPT !.reader = "close"]
  /\ UNCHANGED <<sourceFile, outputFile, fileReadBuffer, lineBuffer, offset,
                 nRead, atEOF, lineCh, outCh, closed, keyToStatsMap,
                 outputBuffer, replayed,
                 queued>>
  /\ UNCHANGED writerVars

\* outputFile.Write(outputBuffer) returns an error: the bytes of the line
\* that were written before the failure stay in the output file, fewer than
\* the line has; globalErr is set and the writer leaves its loop.
WriterWriteFails ==
  /\ pc.writer = "write"
  /\ \E n \in ShortWrites(outputBuffer.writer) :
       outputFile' = outputFile \o SubSeq(outputBuffer.writer, 1, n)
  /\ outputBuffer' = [outputBuffer EXCEPT !.writer = <<>>]
  /\ globalErr' = "write error"
  /\ pc' = [pc EXCEPT !.writer = "done"]
  /\ UNCHANGED <<sourceFile, fileReadBuffer, lineBuffer, offset, nRead,
                 atEOF, lineCh, outCh, closed, keyToStatsMap, replayed,
                 queued>>
  /\ UNCHANGED writerVars

NextFaulty ==
  \/ NextReconstruct
  \/ ReadAtFails
  \/ WriterWriteFails

FairSpecFaulty ==
  /\ InitFaulty
  /\ [][NextFaulty]_vars
  /\ WF_vars(Reader \/ ReadAtFails)
  /\ WF_pc(ParserTakes)
  /\ WF_vars(ParserSend \/ ParserDone)
  /\ WF_vars(Writer \/ WriterWriteFails)

\* C12: once a read or a write has failed, ReconstructStatFile eventually
\* returns, and returns that error.
C12_ErrorReturned ==
  (globalErr # "nil") ~> (pc.reader = "returned" /\ globalErr # "nil")

(***************************************************************************)
(* Write and Close, step by step.                                          *)
(*                                                                         *)
(* A call is taken through the statements of its method, one file          *)
(* operation or one guarded block at a time, so that file operations can   *)
(* fail and calls of several goroutines can interleave.  logStats.Write    *)
(* and Close take logStats.lock; dedupeLogStats.Write takes the lock field *)
(* of dedupeLogStats, which shadows the embedded one, while Close is the   *)
(* promoted method and takes the embedded lock.                            *)
(***************************************************************************)
LockOf(t) == IF dedupe /\ calls[t].op = "Write" THEN "dlst" ELSE "lst"

\* A mutex that never makes its caller wait.
Free_Always(owner) == TRUE

\* sync.Mutex.Lock returns once the mutex has no owner.
Free(owner) == owner = 0

\* A caller that goes on after an error.
ReturnOnError_Ignored(err, onward) == onward

\* if err != nil { return err }: where the call continues.
ReturnOnError(err, onward) == IF err # "nil" THEN "return" ELSE onward

\* (*os.File).Close on handle h; fails tells whether the close itself fails.
\* A nil file gives ErrInvalid and a closed one ErrClosed; a close that
\* fails has released the descriptor all the same.
FileClose(h, fails) ==
  IF h = 0 THEN [err |-> "invalid argument", open |-> handles.open]
  ELSE IF h \notin handles.open
  THEN [err |-> "file already closed", open |-> handles.open]
  ELSE [err |-> IF fails THEN "io error" ELSE "nil",
        open |-> handles.open \ {h}]

\* (*os.File).Write on handle h: the error it returns.
FileWrite(h, fails) ==
  IF h = 0 THEN "invalid argument"
  ELSE IF h \notin handles.open THEN "file already closed"
  ELSE IF fails THEN "io error" ELSE "nil"

\* (*os.File).Sync on handle h: the error it returns.
FileSync(h, fails) == FileWrite(h, fails)

\* Some Close has returned.
CloseReturned == \E i \in 1..Len(returned) : returned[i].op = "Close"

InProgress == {t \in Threads : calls[t].pc # "idle"}

SetCall(t, c) == calls' = [calls EXCEPT ![t] = c]

\* Goroutine t calls Write(statType, statMap).
BeginWrite(t, statType, statMap) ==
  /\ calls[t].pc = "idle"
  /\ SetCall(t, [NoCall EXCEPT !.op = "Write", !.pc = "lock",
                               !.statType = statType, !.statMap = statMap,
                               !.afterClose = CloseReturned])
  /\ UNCHANGED <<lst, dedupe, prevStatsMap, dir, now, hist, sealed, locks,
                 handles, faulty, returned>>
  /\ UNCHANGED pipelineVars

\* Goroutine t calls Close().
BeginClose(t) ==
  /\ calls[t].pc = "idle"
  /\ SetCall(t, [NoCall EXCEPT !.op = "Close", !.pc = "lock",
                               !.afterClose = CloseReturned])
  /\ UNCHANGED <<lst, dedupe, prevStatsMap, dir, now, hist, sealed, locks,
                 handles, faulty, returned>>
  /\ UNCHANGED pipelineVars

\* lock.Lock()
Lock(t) ==
  /\ calls[t].pc = "lock"
  /\ Free(locks[LockOf(t)])
  /\ locks' = [locks EXCEPT ![LockOf(t)] = t]
  /\ SetCall(t, [calls[t] EXCEPT !.pc = IF calls[t].op = "Write" THEN "check"
                                        ELSE "close"])
  /\ UNCHANGED <<lst, dedupe, prevStatsMap, dir, now, hist, sealed, handles,
                 faulty, returned>>
  /\ UNCHANGED pipelineVars

\* Write: if lst.closed { return error }
CheckClosed(t) ==
  /\ calls[t].pc = "check"
  /\ SetCall(t, IF lst.closed
                THEN [calls[t] EXCEPT !.err = "closed", !.failed = "check",
                                      !.pc = "return"]
                ELSE [calls[t] EXCEPT !.pc = IF dedupe THEN "delta"
                                             ELSE "rotate"])
  /\ UNCHANGED <<lst, dedupe, prevStatsMap, dir, now, hist, sealed, locks,
                 handles, faulty, returned>>
  /\ UNCHANGED pipelineVars

\* dedupeLogStats.Write, from needsRotation() to the assignment of
\* prevStatsMap[statType]: the bytes and the error of getBytesToWrite are
\* kept in the locals bytes and err.
DedupeDelta(t) ==
  /\ calls[t].pc = "delta"
  /\ LET c == calls[t]
         prevs == IF needsRotation THEN resetPrevStatsMap ELSE prevStatsMap
         ok == c.statType \in DOMAIN prevs
         prevMap == IF ok THEN prevs[c.statType] ELSE EmptyMap
         toWrite == IF ok THEN populateFilteredMap(prevMap, c.statMap)
                    ELSE c.statMap
         fails == MarshalError(toWrite)
         payload == IF fails THEN <<>> ELSE Marshal(toWrite)
         bytes == IF fails THEN <<>>
                  ELSE formatBytes(lst.tsFormat, now, c.statType, payload)
     IN  /\ prevStatsMap' = MapSet(prevs, c.statType, c.statMap)
         /\ now' = IF fails THEN now ELSE now + 1
         /\ SetCall(t, [c EXCEPT !.bytes = bytes, !.payload = payload,
                                 !.err = IF fails THEN "marshal error"
                                         ELSE "nil",
                                 !.failed = IF fails THEN "marshal" ELSE @,
                                 !.hadPrev = ok, !.prevMap = prevMap,
                                 !.pc = "rotate"])
  /\ UNCHANGED <<lst, dedupe, dir, hist, sealed, locks, handles, faulty,
                 returned>>
  /\ UNCHANGED pipelineVars

\* Where Write continues after rotateIfNeeded returned nil.
AfterRotate == IF dedupe THEN "commit" ELSE "bytes"

\* rotateIfNeeded when needsRotation() is false: it returns nil, and
\* dedupeLogStats.Write assigns that to err.
NoRotation(t) ==
  /\ calls[t].pc = "rotate"
  /\ ~needsRotation
  /\ SetCall(t, [calls[t] EXCEPT !.err = "nil", !.pc = AfterRotate])
  /\ UNCHANGED <<lst, dedupe, prevStatsMap, dir, now, hist, sealed, locks,
                 handles, faulty, returned>>
  /\ UNCHANGED pipelineVars

\* rotateIfNeeded when needsRotation(): err := lst.f.Close()
CloseOld(t) ==
  /\ calls[t].pc = "rotate"
  /\ needsRotation
  /\ \E fails \in {FALSE, faulty} :
       LET r == FileClose(handles.f, fails)
       IN  /\ handles' = [handles EXCEPT !.open = r.open]
           /\ SetCall(t, [calls[t] EXCEPT
                            !.err = r.err,
                            !.failed = IF r.err # "nil" /\ @ = "none"
                                       THEN "rotate" ELSE @,
                            !.rotated = TRUE,
                            !.pc = ReturnOnError(r.err, "rotateFiles")])
  /\ UNCHANGED <<lst, dedupe, prevStatsMap, dir, now, hist, sealed, locks,
                 faulty, returned>>
  /\ UNCHANGED pipelineVars

\* os.OpenFile and os.Open: the handle that the call returns is open.
FileOpen == [handles EXCEPT !.open = @ \cup {handles.next}, !.next = @ + 1]

\* A file operation of rotate has returned an error: rotate returns
\* nil, 0, err and rotateIfNeeded returns err.
RotateFailed(c) ==
  [c EXCEPT !.err = "io error",
            !.failed = IF @ = "none" THEN "rotate" ELSE @,
            !.pc = ReturnOnError("io error", "assign")]

\* Where rotate goes on when its renaming loop has come to index i: the
\* next turn, or past the loop.
AfterTurn(i) ==
  IF i >= 0 THEN "rename"
  ELSE IF lst.compress THEN "openTarget" ELSE "open"

\* The first turn of the renaming loop that has an os.Rename, -1 when none
\* has: only the turn of the last name can be without.
FirstRename(all, numFiles) ==
  IF all # <<>> /\ renameSkips(all, Len(all) - 1, numFiles)
  THEN Len(all) - 2
  ELSE Len(all) - 1

\* rotate: all, err := filepath.Glob(pattern); sort.Strings(all), and the
\* loop as far as its first os.Rename.
RotateGlob(t) ==
  /\ calls[t].pc = "rotateFiles"
  /\ LET all == Glob(dir, lst.fileName, lst.compress)
     IN  SetCall(t, [calls[t] EXCEPT
                       !.all = all,
                       !.i = FirstRename(all, lst.numFiles),
                       !.index0 = IF ActiveName \in DOMAIN dir
                                  THEN dir[ActiveName].data ELSE <<>>,
                       !.pc = AfterTurn(FirstRename(all, lst.numFiles))])
  /\ UNCHANGED <<lst, dedupe, prevStatsMap, dir, now, hist, sealed, locks,
                 handles, faulty, returned>>
  /\ UNCHANGED pipelineVars

\* rotate: one turn of the renaming loop, with its os.Rename.
RotateRename(t) ==
  /\ calls[t].pc = "rename"
  /\ LET c == calls[t]
         onward == [c EXCEPT !.i = c.i - 1, !.pc = AfterTurn(c.i - 1)]
     IN  \E fails \in {FALSE, faulty} :
           IF fails
           THEN /\ SetCall(t, RotateFailed(c))
                /\ UNCHANGED dir
           ELSE /\ dir' = renameTurn(dir, lst.fileName, c.all, c.i,
                                     lst.numFiles, lst.compress)
                /\ SetCall(t, onward)
  /\ UNCHANGED <<lst, dedupe, prevStatsMap, now, hist, sealed, locks, handles,
                 faulty, returned>>
  /\ UNCHANGED pipelineVars

\* The files of compressFile as rotate names them.
SourceFname == getLogFileName(lst.fileName, 0, lst.compress)

TargetFname == getLogFileName(lst.fileName, 1, lst.compress)

\* compressFile: f, err := os.OpenFile(targetFname, O_CREATE|O_TRUNC|O_WRONLY)
\* The target is there and empty; gzip.NewWriter writes nothing yet.
CompressOpenTarget(t) ==
  /\ calls[t].pc = "openTarget"
  /\ \E fails \in {FALSE, faulty} :
       IF fails
       THEN /\ SetCall(t, RotateFailed(calls[t]))
            /\ UNCHANGED <<dir, handles>>
       ELSE /\ dir' = PutFile(dir, TargetFname, Torn(<<>>))
            /\ handles' = FileOpen
            /\ SetCall(t, [calls[t] EXCEPT !.target = handles.next,
                                           !.pc = "openSource"])
  /\ UNCHANGED <<lst, dedupe, prevStatsMap, now, hist, sealed, locks, faulty,
                 returned>>
  /\ UNCHANGED pipelineVars

\* compressFile: r, err = os.Open(sourceFname); on an error f stays open.
CompressOpenSource(t) ==
  /\ calls[t].pc = "openSource"
  /\ \E fails \in {SourceFname \notin DOMAIN dir,
                     faulty \/ SourceFname \notin DOMAIN dir} :
       IF fails
       THEN /\ SetCall(t, RotateFailed(calls[t]))
            /\ UNCHANGED handles
       ELSE /\ handles' = FileOpen
            /\ SetCall(t, [calls[t] EXCEPT !.source = handles.next,
                                           !.pc = "copy"])
  /\ UNCHANGED <<lst, dedupe, prevStatsMap, dir, now, hist, sealed, locks,
                 faulty, returned>>
  /\ UNCHANGED pipelineVars

\* compressFile: r.Stat(), r.Read(buf) and writer.Write(buf).  The gzip
\* writer has passed on to f its header and the beginning of the source,
\* short of the whole, which it passes on when it is closed; on an error f
\* and r stay open.
CompressCopy(t) ==
  /\ calls[t].pc = "copy"
  /\ \E fails \in {FALSE, faulty} :
       SetCall(t, IF fails THEN RotateFailed(calls[t])
                  ELSE [calls[t] EXCEPT !.pc = "closeSource"])
  /\ \E n \in ShortWrites(dir[SourceFname].data) :
       dir' = PutFile(dir, TargetFname,
                      Torn(SubSeq(dir[SourceFname].data, 1, n)))
  /\ UNCHANGED <<lst, dedupe, prevStatsMap, now, hist, sealed, locks, handles,
                 faulty, returned>>
  /\ UNCHANGED pipelineVars

\* compressFile: err = r.Close(); on an error f stays open.
CompressCloseSource(t) ==
  /\ calls[t].pc = "closeSource"
  /\ \E fails \in {FALSE, faulty} :
       LET r == FileClose(calls[t].source, fails)
       IN  /\ handles' = [handles EXCEPT !.open = r.open]
           /\ SetCall(t, IF r.err # "nil"
                         THEN RotateFailed(calls[t])
                         ELSE [calls[t] EXCEPT !.pc = "closeWriter"])
  /\ UNCHANGED <<lst, dedupe, prevStatsMap, dir, now, hist, sealed, locks,
                 faulty, returned>>
  /\ UNCHANGED pipelineVars

\* compressFile: return writer.Close(), which writes the rest of the source
\* and the trailer, and leaves f open.  When it fails the target holds no
\* less than it held, and no trailer.
CompressCloseWriter(t) ==
  /\ calls[t].pc = "closeWriter"
  /\ LET data == dir[SourceFname].data
     IN  \E fails \in {FALSE, faulty} :
           IF fails
           THEN /\ \E n \in TornLengths(data) :
                     /\ n >= Len(dir[TargetFname].data)
                     /\ dir' = PutFile(dir, TargetFname,
                                       Torn(SubSeq(data, 1, n)))
                /\ SetCall(t, RotateFailed(calls[t]))
           ELSE /\ dir' = compressFile(dir, SourceFname, TargetFname)
                /\ SetCall(t, [calls[t] EXCEPT !.pc = "remove"])
  /\ UNCHANGED <<lst, dedupe, prevStatsMap, now, hist, sealed, locks, handles,
                 faulty, returned>>
  /\ UNCHANGED pipelineVars

\* rotate: err = os.Remove(sourceFname)
RotateRemove(t) ==
  /\ calls[t].pc = "remove"
  /\ \E fails \in {FALSE, faulty} :
       IF fails
       THEN /\ SetCall(t, RotateFailed(calls[t]))
            /\ UNCHANGED dir
       ELSE /\ dir' = Remove(dir, SourceFname)
            /\ SetCall(t, [calls[t] EXCEPT !.pc = "open"])
  /\ UNCHANGED <<lst, dedupe, prevStatsMap, now, hist, sealed, locks, handles,
                 faulty, returned>>
  /\ UNCHANGED pipelineVars

\* rotate: return openLogFile(fileName), and f, sz, err := rotate(...) in
\* rotateIfNeeded: the handle and the size of the new index 0 are in the
\* locals f and sz.
RotateOpen(t) ==
  /\ calls[t].pc = "open"
  /\ \E fails \in {FALSE, faulty} :
       IF fails
       THEN /\ \E r \in openLogFileFailures(dir, lst.fileName) :
                 /\ dir' = r.dir
                 /\ handles' = [handles EXCEPT
                                  !.open = @ \cup (handles.next
                                                     ..(handles.next
                                                        + r.leaked - 1)),
                                  !.next = @ + r.leaked]
            /\ SetCall(t, RotateFailed(calls[t]))
            /\ UNCHANGED sealed
       ELSE /\ dir' = openLogFile(dir, lst.fileName)
            /\ handles' = FileOpen
            /\ sealed' = Append(sealed, calls[t].index0)
            /\ SetCall(t, [calls[t] EXCEPT
                             !.f = handles.next,
                             !.sz = FileSize(openLogFile(dir, lst.fileName),
                                             ActiveName),
                             !.pc = "assign"])
  /\ UNCHANGED <<lst, dedupe, prevStatsMap, now, hist, locks, faulty,
                 returned>>
  /\ UNCHANGED pipelineVars

\* The file operations of compressFile, one at a time.
CompressFile(t) ==
  \/ CompressOpenTarget(t)
  \/ CompressOpenSource(t)
  \/ CompressCopy(t)
  \/ CompressCloseSource(t)
  \/ CompressCloseWriter(t)

\* rotateIfNeeded: f, sz, err := rotate(...), one file operation at a time:
\* no lock keeps Close out of a rotation of the deduplicating writer.
Rotate(t) ==
  \/ RotateGlob(t)
  \/ RotateRename(t)
  \/ CompressFile(t)
  \/ RotateRemove(t)
  \/ RotateOpen(t)

\* rotateIfNeeded: lst.f = f; lst.sz = sz; return nil
AssignFile(t) ==
  /\ calls[t].pc = "assign"
  /\ handles' = [handles EXCEPT !.f = calls[t].f]
  /\ lst' = [lst EXCEPT !.sz = calls[t].sz]
  /\ SetCall(t, [calls[t] EXCEPT !.err = "nil", !.pc = AfterRotate])
  /\ UNCHANGED <<dedupe, prevStatsMap, dir, now, hist, sealed, locks, faulty,
                 returned>>
  /\ UNCHANGED pipelineVars

\* logStats.Write: bytes, err := lst.getBytesToWrite(statType, statMap)
GetBytes(t) ==
  /\ calls[t].pc = "bytes"
  /\ LET c == calls[t]
         fails == MarshalError(c.statMap)
         payload == IF fails THEN <<>> ELSE Marshal(c.statMap)
         bytes == IF fails THEN <<>>
                  ELSE formatBytes(lst.tsFormat, now, c.statType, payload)
         err == IF fails THEN "marshal error" ELSE "nil"
     IN  /\ now' = IF fails THEN now ELSE now + 1
         /\ SetCall(t, [c EXCEPT !.bytes = bytes, !.payload = payload,
                                 !.err = err,
                                 !.failed = IF fails /\ @ = "none"
                                            THEN "marshal" ELSE @,
                                 !.pc = ReturnOnError(err, "commit")])
  /\ UNCHANGED <<lst, dedupe, prevStatsMap, dir, hist, sealed, locks, handles,
                 faulty, returned>>
  /\ UNCHANGED pipelineVars

\* writeAndCommit: f := lst.f
WriteAndCommit(t) ==
  /\ calls[t].pc = "commit"
  /\ SetCall(t, [calls[t] EXCEPT !.f = handles.f, !.pc = "write"])
  /\ UNCHANGED <<lst, dedupe, prevStatsMap, dir, now, hist, sealed, locks,
                 handles, faulty, returned>>
  /\ UNCHANGED pipelineVars

\* writeAndCommit: err := writeToFile(f, bytes), and lst.sz += len(bytes)
\* when it is nil.  A write that fails on an open file has written some of
\* the bytes, short of all; lst.sz is not changed then.
AppendBytes(t) ==
  /\ calls[t].pc = "write"
  /\ \E fails \in {FALSE, faulty} :
       LET c == calls[t]
           err == FileWrite(c.f, fails)
           done == [c EXCEPT !.err = err,
                             !.failed = IF err # "nil" /\ @ = "none"
                                        THEN "write" ELSE @,
                             !.pc = IF err = "nil" /\ lst.durable
                                    THEN "sync" ELSE "return"]
       IN  /\ IF err = "nil"
              THEN /\ dir' = writeToFile(dir, c.bytes)
                   /\ SetCall(t, [done EXCEPT !.written = Len(c.bytes)])
                   /\ lst' = [lst EXCEPT !.sz = @ + Len(c.bytes)]
                   /\ hist' = IF c.bytes = <<>> THEN hist
                              ELSE Append(hist,
                                     [statType |-> c.statType,
                                      statMap |-> c.statMap,
                                      bytes |-> c.bytes,
                                      payload |-> c.payload,
                                      rotated |-> c.rotated,
                                      hadPrev |-> c.hadPrev,
                                      prevMap |-> c.prevMap])
              ELSE IF err = "io error"
              THEN /\ \E n \in ShortWrites(c.bytes) :
                        /\ dir' = writeToFile(dir, SubSeq(c.bytes, 1, n))
                        /\ SetCall(t, [done EXCEPT !.written = n])
                   /\ UNCHANGED <<lst, hist>>
              ELSE /\ SetCall(t, done)
                   /\ UNCHANGED <<dir, lst, hist>>
  /\ UNCHANGED <<dedupe, prevStatsMap, now, sealed, locks, handles, faulty,
                 returned>>
  /\ UNCHANGED pipelineVars

\* writeAndCommit: if lst.durable { err = f.Sync() }; return err
SyncFile(t) ==
  /\ calls[t].pc = "sync"
  /\ \E fails \in {FALSE, faulty} :
       LET err == FileSync(calls[t].f, fails)
       IN  SetCall(t, [calls[t] EXCEPT
                         !.err = err,
                         !.failed = IF err # "nil" /\ @ = "none"
                                    THEN "sync" ELSE @,
                         !.pc = "return"])
  /\ UNCHANGED <<lst, dedupe, prevStatsMap, dir, now, hist, sealed, locks,
                 handles, faulty, returned>>
  /\ UNCHANGED pipelineVars

\* SetDurable(durable): the lock is taken, the flag set, the lock released.
SetDurable(durable) ==
  /\ Free(locks.lst)
  /\ lst.durable # durable
  /\ lst' = [lst EXCEPT !.durable = durable]
  /\ UNCHANGED <<dedupe, prevStatsMap, dir, now, hist, sealed, calls, locks,
                 handles, faulty, returned>>
  /\ UNCHANGED pipelineVars

\* Close: if lst.closed { return }
CloseCheck(t) ==
  /\ calls[t].pc = "close"
  /\ SetCall(t, [calls[t] EXCEPT !.pc = IF lst.closed THEN "return"
                                        ELSE "closeFile"])
  /\ UNCHANGED <<lst, dedupe, prevStatsMap, dir, now, hist, sealed, locks,
                 handles, faulty, returned>>
  /\ UNCHANGED pipelineVars

\* Close: if lst.f != nil { lst.f.Close() }, the error dropped.
CloseFile(t) ==
  /\ calls[t].pc = "closeFile"
  /\ handles' = [handles EXCEPT !.open = FileClose(handles.f, FALSE).open]
  /\ SetCall(t, [calls[t] EXCEPT !.pc = "closeNil"])
  /\ UNCHANGED <<lst, dedupe, prevStatsMap, dir, now, hist, sealed, locks,
                 faulty, returned>>
  /\ UNCHANGED pipelineVars

\* Close: lst.f = nil
CloseNil(t) ==
  /\ calls[t].pc = "closeNil"
  /\ handles' = [handles EXCEPT !.f = 0]
  /\ SetCall(t, [calls[t] EXCEPT !.pc = "closeFlag"])
  /\ UNCHANGED <<lst, dedupe, prevStatsMap, dir, now, hist, sealed, locks,
                 faulty, returned>>
  /\ UNCHANGED pipelineVars

\* Close: lst.closed = true
CloseFlag(t) ==
  /\ calls[t].pc = "closeFlag"
  /\ lst' = [lst EXCEPT !.closed = TRUE]
  /\ SetCall(t, [calls[t] EXCEPT !.pc = "return"])
  /\ UNCHANGED <<dedupe, prevStatsMap, dir, now, hist, sealed, locks, handles,
                 faulty, returned>>
  /\ UNCHANGED pipelineVars

\* The statements of Close, which another goroutine's dedupeLogStats.Write
\* can run between: the two hold different locks.
CloseBody(t) ==
  \/ CloseCheck(t)
  \/ CloseFile(t)
  \/ CloseNil(t)
  \/ CloseFlag(t)

\* What a call that returns leaves in the history: the call, the error it
\* returns, how many bytes its f.Write has added to the file, and how many
\* lines had been appended, what the directory held and which handles were
\* open when it returned.
Returned(t) ==
  [t |-> t, op |-> calls[t].op, statType |-> calls[t].statType,
   statMap |-> calls[t].statMap, err |-> calls[t].err,
   failed |-> calls[t].failed, bytes |-> calls[t].bytes,
   afterClose |-> calls[t].afterClose, lines |-> Len(hist), dir |-> dir,
   written |-> calls[t].written,
   f |-> handles.f, open |-> handles.open, prevStatsMap |-> prevStatsMap]

\* The deferred lock.Unlock(), and the return.
Return(t) ==
  /\ calls[t].pc = "return"
  /\ locks' = [locks EXCEPT ![LockOf(t)] = IF @ = t THEN 0 ELSE @]
  /\ returned' = Append(returned, Returned(t))
  /\ SetCall(t, NoCall)
  /\ UNCHANGED <<lst, dedupe, prevStatsMap, dir, now, hist, sealed, handles,
                 faulty>>
  /\ UNCHANGED pipelineVars

\* The steps of the call that goroutine t is in, on a writer that is not
\* durable.
Step(t) ==
  \/ Lock(t)
  \/ CheckClosed(t)
  \/ DedupeDelta(t)
  \/ NoRotation(t)
  \/ CloseOld(t)
  \/ Rotate(t)
  \/ AssignFile(t)
  \/ GetBytes(t)
  \/ WriteAndCommit(t)
  \/ AppendBytes(t)
  \/ Return(t)

\* A fault of the file system appears, or goes away.
FaultAppears ==
  /\ ~faulty
  /\ faulty' = TRUE
  /\ UNCHANGED <<lst, dedupe, prevStatsMap, dir, now, hist, sealed, calls,
                 locks, handles, returned>>
  /\ UNCHANGED pipelineVars

FaultGone ==
  /\ faulty
  /\ faulty' = FALSE
  /\ UNCHANGED <<lst, dedupe, prevStatsMap, dir, now, hist, sealed, calls,
                 locks, handles, returned>>
  /\ UNCHANGED pipelineVars

(***************************************************************************)
(* One goroutine writing while file operations can fail.                   *)
(***************************************************************************)
StatChan == (K1 :> Chan) @@ (K2 :> String(<<"V", "2">>))

FaultInputs == {TypeA} \X {StatBase, StatChan}

\* A limit that every line reaches, so that every Write after the first
\* finds that the segment needs rotation.
FaultSizeLimit == 20

InitFaults ==
  /\ \E isDedupe \in BOOLEAN, numFiles \in {2, 3}, compress \in BOOLEAN :
       NewLogStats(isDedupe, EmptyDir, LogFileName, FaultSizeLimit,
                   numFiles, "05", compress)
  /\ NoReconstruction

MaxCalls == 3

NextFaults ==
  \/ /\ Len(returned) < MaxCalls
     /\ \E in \in FaultInputs : BeginWrite(1, in[1], in[2])
  \/ Step(1)
  \/ SyncFile(1)
  \/ \E durable \in BOOLEAN : SetDurable(durable)
  \/ FaultAppears
  \/ FaultGone

SpecFaults == InitFaults /\ [][NextFaults]_vars

\* The number of lines that had been appended when call i began, calls
\* being made one after the other.
LinesBefore(i) == IF i = 1 THEN 0 ELSE returned[i - 1].lines

\* C14: a Write during which a step of the rotation failed returns an error
\* and has appended no line: no line has been added to those appended, and
\* its f.Write has added no byte to any file.
C14_RotationFailure ==
  \A i \in 1..Len(returned) :
    (returned[i].op = "Write" /\ returned[i].failed = "rotate")
    => /\ returned[i].err \in {"io error", "file already closed"}
       /\ returned[i].lines = LinesBefore(i)
       /\ returned[i].written = 0

\* A Write whose rotation failed at a file operation after the old handle
\* had been closed has returned, with a line written before it.
C14_Witness ==
  \E i \in 1..Len(returned) :
    /\ returned[i].op = "Write"
    /\ returned[i].failed = "rotate"
    /\ returned[i].err = "io error"
    /\ returned[i].f \notin returned[i].open
    /\ returned[i].lines > 0

\* C15: once a Write has returned an I/O error, a later Write fails only
\* through a fault that is present while it runs or through its input.
C15_UsableAfterFault ==
  \A i \in 1..Len(returned) : \A j \in (i + 1)..Len(returned) :
    (returned[i].op = "Write" /\ returned[i].err = "io error")
    => returned[j].err \in {"nil", "io error", "marshal error"}

\* C16: a Write whose stat map, or whose delta, cannot be serialized returns
\* an error and appends nothing.
C16_UnserializableRejected ==
  \A i \in 1..Len(returned) :
    (returned[i].op = "Write" /\ returned[i].failed = "marshal")
    => /\ returned[i].err # "nil"
       /\ returned[i].lines = LinesBefore(i)

(***************************************************************************)
(* Goroutines sharing one writer: two of them write and one closes.        *)
(***************************************************************************)
Writers == {1, 2}

Closer == 3

\* What each writing goroutine reports: the first stats of type A, the
\* second stats of type A and of type B.
ThreadInputs(t) ==
  IF t = 1 THEN {TypeA} \X {StatBase, StatK1}
  ELSE ({TypeA} \X {StatK1}) \cup ({TypeB} \X {StatBase})

\* A limit that every line reaches, with compression and without, and one
\* that two full lines reach and one does not.
ThreadWriters ==
  {<<FaultSizeLimit, FALSE>>, <<FaultSizeLimit, TRUE>>, <<40, FALSE>>}

InitThreads ==
  /\ \E isDedupe \in BOOLEAN, w \in ThreadWriters :
       NewLogStats(isDedupe, EmptyDir, LogFileName, w[1], 2, "05", w[2])
  /\ NoReconstruction

MaxThreadCalls == 3

Begun == Len(returned) + Cardinality(InProgress)

NextThreads ==
  \/ /\ Begun < MaxThreadCalls
     /\ \E t \in Writers : \E in \in ThreadInputs(t) :
          BeginWrite(t, in[1], in[2])
  \/ /\ Begun < MaxThreadCalls
     /\ BeginClose(Closer)
  \/ \E t \in Threads : Step(t)
  \/ CloseBody(Closer)

SpecThreads == InitThreads /\ [][NextThreads]_vars

\* The goroutines that are in Write and hold, or have passed, its lock.
InWrite ==
  {t \in Threads : calls[t].op = "Write" /\ calls[t].pc \notin {"idle", "lock"}}

\* The first record of the history whose line is in the active segment.
ActiveFrom ==
  IF \E i \in 1..Len(hist) : hist[i].rotated
  THEN CHOOSE i \in 1..Len(hist) :
         hist[i].rotated /\ \A j \in (i + 1)..Len(hist) : ~hist[j].rotated
  ELSE 1

\* No goroutine has called Close.
NoClose == ~CloseReturned /\ \A t \in Threads : calls[t].op # "Close"

\* C17: at most one goroutine is inside Write; between Writes, and as long
\* as Close has not been called, the active
\* segment holds the lines appended since the last rotation, in the order of
\* the Writes, and the tracked size is the sum of their lengths; and every
\* line of the deduplicating writer is the delta against the stat map of the
\* line of its type that precedes it in the segment, or the full map when
\* there is none.
C17_WritesSerialized ==
  /\ Cardinality(InWrite) <= 1
  /\ (InWrite = {} /\ NoClose)
     => /\ dir[ActiveName].data = WrittenFrom(ActiveFrom)
        /\ lst.sz = Len(WrittenFrom(ActiveFrom))
  /\ \A i \in 1..Len(hist) :
       IF dedupe /\ ~FirstOfType(i)
       THEN \E j \in 1..(i - 1) :
              /\ PrecedingOfType(j, i)
              /\ hist[i].hadPrev
              /\ hist[i].prevMap = hist[j].statMap
              /\ hist[i].payload
                   = Marshal(populateFilteredMap(hist[j].statMap,
                                                 hist[i].statMap))
       ELSE hist[i].payload = Marshal(hist[i].statMap)

\* A goroutine waits for the lock while another, inside Write, is about to
\* append a delta against the line that a third call appended.
C17_Witness ==
  \E t \in Writers : \E u \in Writers \ {t} :
    /\ calls[t].pc = "commit"
    /\ calls[t].hadPrev
    /\ calls[t].payload # Marshal(calls[t].statMap)
    /\ calls[u].op = "Write"
    /\ calls[u].pc = "lock"
    /\ Len(hist) > 0
    /\ hist[Len(hist)].statType = calls[t].statType

\* C18: once a Close has returned, a Write called later returns an error,
\* no line is appended any more, and when no call is in progress no file
\* handle is open.
C18_ClosedForGood ==
  \A i \in 1..Len(returned) :
    returned[i].op = "Close"
    => /\ \A j \in (i + 1)..Len(returned) :
            (returned[j].op = "Write" /\ returned[j].afterClose)
            => returned[j].err = "closed"
       /\ Len(hist) = returned[i].lines
       /\ InProgress = {} => handles.open = {}

(***************************************************************************)
(* The deduplicating writer on nested stat maps: the stat of the tests,    *)
(* whose key k3 holds a map of two keys, with inner and outer keys         *)
(* changing from write to write and no key ever removed.                   *)
(***************************************************************************)
K31 == <<"k", "3", "1">>
K32 == <<"k", "3", "2">>

Nested(k1, k31, k32) ==
  (K1 :> Int64(Small(k1)))
  @@ (K3 :> Map((K31 :> Int64(Small(k31))) @@ (K32 :> String(k32))))

NestedInputs ==
  {TypeA} \X {Nested(10, 1, <<"x">>), Nested(10, 2, <<"x">>),
              Nested(10, 2, <<"y">>), Nested(99, 1, <<"x">>)}

InitNested ==
  /\ NewLogStats(TRUE, EmptyDir, LogFileName, 1000, 2, "05", TRUE)
  /\ NoReconstruction

NextNested ==
  /\ Len(hist) < MaxWrites
  /\ \E in \in NestedInputs : DedupeWrite(in[1], in[2])
  /\ UNCHANGED callVars
  /\ UNCHANGED pipelineVars

SpecNested == InitNested /\ [][NextNested]_vars

\* C19: when the writes were deduplicating writes of one type into one
\* segment, of nested stat maps that all hold the same keys at every level,
\* replaying the segment gives, record by record, the lines carrying the
\* original stat maps, unchanged inner keys included.
C19_NestedRoundTrip ==
  (/\ dedupe
   /\ OneSegment
   /\ NoKeyRemoved)
  => Replay(EmptyMap, LinesOf(dir[ActiveName].data))
       = [i \in 1..Len(hist) |-> FullLine(hist[i])]

(***************************************************************************)
(* Construction.  The constructors validate their input before they touch  *)
(* the file system.  Before the first construction there is no writer:     *)
(* lst.f is nil and no handle is open.                                     *)
(***************************************************************************)
\* A validation that rejects MAX_NUM_FILES itself.
validateInput_OffByOne(fileName, numFiles) ==
  IF numFiles >= MAX_NUM_FILES
  THEN [fileName |-> fileName, err |-> "More than 99 files not supported."]
  ELSE IF numFiles < 1
  THEN [fileName |-> fileName, err |-> "Unsupported file count"]
  ELSE [fileName |-> IF HasSuffix(fileName, DotLog) THEN fileName
                     ELSE fileName \o DotLog,
        err |-> "nil"]

validateInput(fileName, numFiles) ==
  IF numFiles > MAX_NUM_FILES
  THEN [fileName |-> fileName, err |-> "More than 99 files not supported."]
  ELSE IF numFiles < 1
  THEN [fileName |-> fileName, err |-> "Unsupported file count"]
  ELSE [fileName |-> IF HasSuffix(fileName, DotLog) THEN fileName
                     ELSE fileName \o DotLog,
        err |-> "nil"]

\* NewLogStats / NewDedupeLogStats called with these arguments; fails tells
\* whether openLogFile returns an error.  The call is recorded in the
\* history with what validateInput and the constructor return, with the
\* directory before and after it and the handles it opened.
Construct(isDedupe, fileName, sizeLimit, numFiles, tsFormat, fails) ==
  LET v == validateInput(fileName, numFiles)
      made == v.err = "nil" /\ ~fails
      call == [op |-> "NewLogStats", isDedupe |-> isDedupe,
               arg |-> fileName, numFiles |-> numFiles, valid |-> v.err,
               err |-> IF v.err = "nil" /\ fails THEN "io error" ELSE v.err,
               writer |-> made, fileName |-> v.fileName, before |-> dir]
  IN  /\ IF v.err # "nil"
         THEN /\ returned' = Append(returned, call @@ [opened |-> {}])
              /\ UNCHANGED <<dir, lst, dedupe, prevStatsMap, handles>>
         ELSE IF fails
         THEN /\ \E r \in openLogFileFailures(dir, v.fileName) :
                   /\ dir' = r.dir
                   /\ handles' =
                        [handles EXCEPT
                           !.open = @ \cup (handles.next
                                              ..(handles.next + r.leaked - 1)),
                           !.next = @ + r.leaked]
                   /\ returned' =
                        Append(returned,
                               call @@ [opened |->
                                          handles.next
                                            ..(handles.next + r.leaked - 1)])
              /\ UNCHANGED <<lst, dedupe, prevStatsMap>>
         ELSE /\ returned' = Append(returned,
                                    call @@ [opened |-> {handles.next}])
              /\ dir' = openLogFile(dir, v.fileName)
              /\ lst' = [fileName |-> v.fileName, sizeLimit |-> sizeLimit,
                         numFiles |-> numFiles, tsFormat |-> tsFormat,
                         sz |-> FileSize(openLogFile(dir, v.fileName),
                                         getLogFileName(v.fileName, 0, FALSE)),
                         compress |-> TRUE, closed |-> FALSE,
                         durable |-> FALSE]
              /\ dedupe' = isDedupe
              /\ prevStatsMap' = EmptyMap
              /\ handles' = [f |-> handles.next,
                             open |-> handles.open \cup {handles.next},
                             next |-> handles.next + 1]
      /\ UNCHANGED <<now, hist, sealed, calls, locks, faulty>>
      /\ UNCHANGED pipelineVars

FileNames ==
  {<<"s">>, <<"s">> \o DotLog, DotLog, <<"l", "o", "g">>,
   <<"s">> \o DotLog \o <<".", "g", "z">>}

NumFilesInputs == {-1, 0, 1, MAX_NUM_FILES, MAX_NUM_FILES + 1}

InitConstruct ==
  /\ dir \in {EmptyDir, OldDir}
  /\ lst = [fileName |-> <<>>, sizeLimit |-> 0, numFiles |-> 0,
            tsFormat |-> "05", sz |-> 0, compress |-> FALSE,
            closed |-> FALSE, durable |-> FALSE]
  /\ dedupe = FALSE
  /\ prevStatsMap = EmptyMap
  /\ now = 0
  /\ hist = <<>>
  /\ sealed = <<>>
  /\ calls = [t \in Threads |-> NoCall]
  /\ locks = [lst |-> 0, dlst |-> 0]
  /\ handles = [f |-> 0, open |-> {}, next |-> 1]
  /\ faulty = FALSE
  /\ returned = <<>>
  /\ NoReconstruction

MaxConstructs == 2

NextConstruct ==
  /\ Len(returned) < MaxConstructs
  /\ \E isDedupe \in BOOLEAN, fileName \in FileNames,
        numFiles \in NumFilesInputs, fails \in BOOLEAN :
       Construct(isDedupe, fileName, 1000, numFiles, "05", fails)

SpecConstruct == InitConstruct /\ [][NextConstruct]_vars

\* The directory as it was when call i of the history returned.
DirAfter(i) == IF i = Len(returned) THEN dir ELSE returned[i + 1].before

\* C20: a constructor called with numFiles below 1 or above 99 returns an
\* error and no writer, and leaves the directory as it was and opens no
\* file; with numFiles from 1 to 99 it returns a writer, whose file name is
\* the one given when that ends in .log and the one given followed by .log
\* otherwise.
C20_Validation ==
  \A i \in 1..Len(returned) :
    returned[i].op = "NewLogStats"
    => IF returned[i].numFiles < 1 \/ returned[i].numFiles > 99
       THEN /\ returned[i].err # "nil"
            /\ ~returned[i].writer
            /\ DirAfter(i) = returned[i].before
            /\ returned[i].opened = {}
       ELSE /\ returned[i].valid = "nil"
            /\ returned[i].writer <=> returned[i].err = "nil"
            /\ HasSuffix(returned[i].fileName, DotLog)
            /\ returned[i].fileName
                 = IF HasSuffix(returned[i].arg, DotLog) THEN returned[i].arg
                   ELSE returned[i].arg \o DotLog

\* A construction with 100 files was refused on an empty directory, which
\* stayed empty, and one with 99 files and a name without the suffix then
\* succeeded and created the file.
C20_Witness ==
  /\ Len(returned) = 2
  /\ returned[1].numFiles = 100
  /\ returned[1].err # "nil"
  /\ returned[1].before = EmptyDir
  /\ returned[2].before = EmptyDir
  /\ returned[2].numFiles = 99
  /\ returned[2].arg = <<"s">>
  /\ returned[2].fileName = <<"s">> \o DotLog
  /\ ActiveName \in DOMAIN dir
  /\ handles.open = {1}

(***************************************************************************)
(* The delta of two stat maps.  The deduplicating writer is given two stat *)
(* maps of one type, one after the other, drawn from maps whose key k1     *)
(* holds an int64, a uint64, a float64, nil or a map, and whose key k3     *)
(* holds a map in which k32 holds a map again.                             *)
(***************************************************************************)
Deep(a, b, c) ==
  (K1 :> a) @@ (K3 :> Map((K31 :> b) @@ (K32 :> Map((K1 :> c)))))

DeltaInputs ==
  {TypeA} \X
    ({Deep(a, b, c) :
        a \in {Int64(Small(10)), Uint64(Small(10)), Float64(Small(10)), Nil,
               Map((K1 :> Int64(Small(10))))},
        b \in {Int64(Small(1)), Int64(Small(2))},
        c \in {String(<<"x">>), String(<<"y">>)}}
     \cup {(K1 :> Int64(Small(10)))
             @@ (K3 :> Map((K32 :> Map((K1 :> String(<<"x">>)))))),
           (K1 :> Int64(Small(10))) @@ (K3 :> String(<<"x">>))})

InitDelta ==
  /\ NewLogStats(TRUE, EmptyDir, LogFileName, 1000, 2, "05", TRUE)
  /\ NoReconstruction

MaxDeltaWrites == 2

NextDelta ==
  /\ Len(hist) < MaxDeltaWrites
  /\ \E in \in DeltaInputs : DedupeWrite(in[1], in[2])
  /\ UNCHANGED callVars
  /\ UNCHANGED pipelineVars

SpecDelta == InitDelta /\ [][NextDelta]_vars

\* Two values are of one of the four types that the filter compares.
SamePrimitive(v, prev) == v.k = prev.k /\ IsScalar(v)

BothNested(v, prev) == v.k = "map" /\ prev.k = "map"

\* delta is what the claims say of the delta of prev and curr, at this level
\* and, for the keys holding a map in both, at every level below: such a key
\* is in the delta iff the delta of the two maps is not empty, and then with
\* that delta; and every key of a delta is new, or changed, or holds values
\* that are not compared.
RECURSIVE NestedDeltaOk(_, _, _)
NestedDeltaOk(prev, curr, delta) ==
  /\ DOMAIN delta \subseteq DOMAIN curr
  /\ \A k \in DOMAIN delta :
       \/ k \notin DOMAIN prev
       \/ curr[k] # prev[k]
       \/ ~SamePrimitive(curr[k], prev[k])
  /\ \A k \in (DOMAIN curr) \cap (DOMAIN prev) :
       BothNested(curr[k], prev[k])
       => LET inner == populateFilteredMap(prev[k].m, curr[k].m)
          IN  /\ k \in DOMAIN delta <=> inner # EmptyMap
              /\ k \in DOMAIN delta => delta[k] = Map(inner)
              /\ inner = EmptyMap
                 => \A x \in DOMAIN curr[k].m :
                      /\ x \in DOMAIN prev[k].m
                      /\ \/ curr[k].m[x] = prev[k].m[x]
                         \/ BothNested(curr[k].m[x], prev[k].m[x])
              /\ NestedDeltaOk(prev[k].m, curr[k].m, inner)

\* C21: a write that finds a baseline emits, for a key that holds a map in
\* the baseline and in the stat map, the delta of the two maps computed the
\* same way, and omits the key when that delta is empty, at every depth.
C21_NestedDelta ==
  \A i \in 1..Len(hist) :
    hist[i].hadPrev
    => LET delta == populateFilteredMap(hist[i].prevMap, hist[i].statMap)
       IN  /\ hist[i].payload = Marshal(delta)
           /\ NestedDeltaOk(hist[i].prevMap, hist[i].statMap, delta)

\* A write changed only the string two levels down and emitted only it, and
\* a write changed nothing below k3 and emitted no k3.
C21_Witness ==
  /\ Len(hist) = 2
  /\ hist[2].hadPrev
  /\ hist[1].statMap
       = Deep(Int64(Small(10)), Int64(Small(1)), String(<<"x">>))
  /\ hist[2].statMap
       = Deep(Int64(Small(10)), Int64(Small(1)), String(<<"y">>))
  /\ hist[2].payload
       = Marshal((K3 :> Map((K32 :> Map((K1 :> String(<<"y">>)))))))

\* C22: a key of the baseline and of the stat map whose two values are
\* neither of the same compared type (int64, uint64, bool, string) nor both
\* maps is in the delta with its value in the stat map.
C22_ConservativeInclusion ==
  \A i \in 1..Len(hist) :
    hist[i].hadPrev
    => LET delta == populateFilteredMap(hist[i].prevMap, hist[i].statMap)
       IN  /\ hist[i].payload = Marshal(delta)
           /\ \A k \in (DOMAIN hist[i].statMap) \cap (DOMAIN hist[i].prevMap) :
                (/\ ~SamePrimitive(hist[i].statMap[k], hist[i].prevMap[k])
                 /\ ~BothNested(hist[i].statMap[k], hist[i].prevMap[k]))
                => /\ k \in DOMAIN delta
                   /\ delta[k] = hist[i].statMap[k]

\* An int64 was followed by a uint64 of the same number, and the key was
\* emitted.
C22_Witness ==
  /\ Len(hist) = 2
  /\ hist[2].hadPrev
  /\ hist[1].statMap
       = Deep(Int64(Small(10)), Int64(Small(1)), String(<<"x">>))
  /\ hist[2].statMap
       = Deep(Uint64(Small(10)), Int64(Small(1)), String(<<"x">>))
  /\ hist[2].payload = Marshal((K1 :> Uint64(Small(10))))

(***************************************************************************)
(* Keys that the stat maps stop carrying.                                  *)
(***************************************************************************)
\* Record j is the last write up to record i, of hist[i]'s type, whose stat
\* map held key k.
LastWriteOf(j, i, k) ==
  /\ j <= i
  /\ hist[j].statType = hist[i].statType
  /\ k \in DOMAIN hist[j].statMap
  /\ \A l \in (j + 1)..i :
       hist[l].statType = hist[i].statType => k \notin DOMAIN hist[l].statMap

\* Every key that a stat map of hist[i]'s type has held up to record i, with
\* the value last written for it.
LastWritten(i) ==
  LET sameType == {j \in 1..i : hist[j].statType = hist[i].statType}
  IN  [k \in UNION {DOMAIN hist[j].statMap : j \in sameType} |->
         hist[CHOOSE j \in sameType : LastWriteOf(j, i, k)].statMap[k]]

\* C23: a delta holds no key that its stat map lacks, and, in a segment
\* that holds all the lines written, every replayed record carries each key
\* that a stat map of its type has held so far, with the value last written
\* for it.
C23_NoTombstones ==
  /\ \A i \in 1..Len(hist) :
       hist[i].hadPrev
       => /\ hist[i].payload
               = Marshal(populateFilteredMap(hist[i].prevMap, hist[i].statMap))
          /\ DOMAIN populateFilteredMap(hist[i].prevMap, hist[i].statMap)
               \subseteq DOMAIN hist[i].statMap
  /\ (dedupe /\ OneSegment)
     => Replay(EmptyMap, LinesOf(dir[ActiveName].data))
          = [i \in 1..Len(hist) |->
               SubSeq(hist[i].bytes, 1,
                      Len(hist[i].bytes) - Len(hist[i].payload) - 1)
               \o Marshal(LastWritten(i))]

(***************************************************************************)
(* The baselines of the deduplicating writer from one Write to the next.   *)
(***************************************************************************)
\* C24: a deduplicating Write of type T that returns nil leaves the stat map
\* it was given as the baseline of T; when it rotated, T is the only type
\* with a baseline, and when it did not, the baselines of the other types
\* are what they were.
C24_BaselineIsSnapshot ==
  [][Len(hist') = Len(hist) + 1
     => LET h == hist'[Len(hist')]
        IN  /\ h.statType \in DOMAIN prevStatsMap'
            /\ prevStatsMap'[h.statType] = h.statMap
            /\ IF h.rotated
               THEN DOMAIN prevStatsMap' = {h.statType}
               ELSE \A t \in (DOMAIN prevStatsMap \cup DOMAIN prevStatsMap')
                               \ {h.statType} :
                      /\ t \in DOMAIN prevStatsMap
                      /\ t \in DOMAIN prevStatsMap'
                      /\ prevStatsMap'[t] = prevStatsMap[t]]_vars

\* After a write of type B and a delta of type A, a write of type A rotated:
\* A alone has a baseline, the stat map of that write.
C24_Witness ==
  /\ Len(hist) >= 3
  /\ \E i \in 1..(Len(hist) - 1) : hist[i].statType = TypeB
  /\ \E i \in 1..(Len(hist) - 1) :
       /\ hist[i].statType = TypeA
       /\ hist[i].hadPrev
       /\ hist[i].payload # Marshal(hist[i].statMap)
  /\ hist[Len(hist)].rotated
  /\ hist[Len(hist)].statType = TypeA
  /\ prevStatsMap = (TypeA :> hist[Len(hist)].statMap)

(***************************************************************************)
(* A writer constructed over the directory of an earlier run: index 0      *)
(* holds a line that reaches the size limit, and sealed segments exist     *)
(* under some of the indices 1..MaxOldIndex, among them indices from       *)
(* numFiles up (an earlier run with more files) and indices with gaps      *)
(* between them (an earlier rotation that failed between two renames).     *)
(***************************************************************************)
MaxOldIndex == 4

\* What the earlier run left in segment n.
OldSegment(n) == formatBytes("05", n, TypeA, Marshal(StatLess))

Leftover(indices, compress) ==
  [f \in {getLogFileName(LogFileName, 0, FALSE)}
          \cup {getLogFileName(LogFileName, n, compress) : n \in indices} |->
     IF f.num = 0 THEN Plain(OldLine)
     ELSE [gz |-> compress, data |-> OldSegment(f.num)]]

InitRestart ==
  /\ \E isDedupe \in BOOLEAN, numFiles \in 1..MaxFiles, compress \in BOOLEAN,
        indices \in SUBSET (1..MaxOldIndex) :
       NewLogStats(isDedupe, Leftover(indices, compress), LogFileName, 20,
                   numFiles, "05", compress)
  /\ NoReconstruction

MaxRestartWrites == 2

NextRestart ==
  /\ Len(hist) < MaxRestartWrites
  /\ \/ Write(TypeA, StatK2)
     \/ DedupeWrite(TypeA, StatK2)
  /\ UNCHANGED callVars
  /\ UNCHANGED pipelineVars

SpecRestart == InitRestart /\ [][NextRestart]_vars

\* C25: a Write that rotates leaves in segment i + 1 what segment i held,
\* for every segment i that existed and whose new index is below numFiles.
C25_ShiftByOne ==
  [][(Len(hist') = Len(hist) + 1 /\ hist'[Len(hist')].rotated)
     => \A f \in DOMAIN dir :
          f.num + 1 < lst.numFiles
          => \E g \in DOMAIN dir' :
               /\ g.num = f.num + 1
               /\ dir'[g].data = dir[f].data]_vars

\* C26: when a Write has rotated, the active segment holds the line of that
\* Write and nothing else, and the tracked size is the length of that line.
C26_FreshActive ==
  (Len(hist) > 0 /\ hist[Len(hist)].rotated)
  => /\ dir[ActiveName].data = hist[Len(hist)].bytes
     /\ lst.sz = Len(hist[Len(hist)].bytes)

\* C27: once a writer constructed over the directory of an earlier run has
\* rotated, no segment has an index of numFiles or more, and at most
\* numFiles segments exist.
C27_LeftoversRemoved ==
  Len(sealed) > 0
  => /\ \A f \in DOMAIN dir : f.num < lst.numFiles
     /\ Cardinality(DOMAIN dir) <= lst.numFiles

(***************************************************************************)
(* The size limit.                                                         *)
(***************************************************************************)
\* The length of the last line of data, its newline included.
LastLineLen(data) == Len(LinesOf(data)[Len(LinesOf(data))]) + 1

SealedNames == {f \in DOMAIN dir : f.num >= 1}

\* C28: the tracked size is always the length of the active segment; a
\* Write seals the active segment and starts a new one iff the tracked size
\* has reached the limit when it is called, and appends to the active
\* segment otherwise; and with two files or more every sealed segment has
\* reached the limit, and had not before its last line.
C28_SoftLimit ==
  /\ [](/\ lst.sz = FileSize(dir, ActiveName)
        /\ lst.numFiles >= 2
           => \A f \in SealedNames :
                /\ Len(dir[f].data) >= lst.sizeLimit
                /\ Len(dir[f].data) - LastLineLen(dir[f].data) < lst.sizeLimit)
  /\ [][Len(hist') = Len(hist) + 1
        => IF lst.sz >= lst.sizeLimit
           THEN /\ dir'[ActiveName].data = hist'[Len(hist')].bytes
                /\ dir'[getLogFileName(lst.fileName, 1, lst.compress)].data
                     = dir[ActiveName].data
           ELSE /\ dir'[ActiveName].data
                     = dir[ActiveName].data \o hist'[Len(hist')].bytes
                /\ \A f \in SealedNames :
                     f \in DOMAIN dir' /\ dir'[f] = dir[f]]_vars

\* The segment left by the earlier run was written to until it reached the
\* limit and has been sealed, and the new active segment is below the limit.
C28_Witness ==
  /\ lst.sizeLimit = 40
  /\ getLogFileName(lst.fileName, 1, TRUE) \in DOMAIN dir
  /\ Len(dir[getLogFileName(lst.fileName, 1, TRUE)].data) > Len(OldLine)
  /\ SubSeq(dir[getLogFileName(lst.fileName, 1, TRUE)].data, 1,
            Len(OldLine)) = OldLine
  /\ lst.sz > 0
  /\ lst.sz < lst.sizeLimit

(***************************************************************************)
(* The backward scan on its own: extractStatsFromLine applied once to a    *)
(* line of up to MaxScanLen bytes, each a bracket of the three kinds or a  *)
(* letter.  replayed holds the line and the index returned.                *)
(***************************************************************************)
MaxScanLen == 5

ScanBytes == {"{", "}", "[", "]", "(", ")", "a"}

ScanLines == UNION {[1..n -> ScanBytes] : n \in 0..MaxScanLen}

InitScan ==
  /\ NoWriter
  /\ NoReconstruction

\* One call of extractStatsFromLine.
Scan(source) ==
  /\ replayed' = <<[source |-> source,
                    statStart |-> extractStatsFromLine(source)]>>
  /\ UNCHANGED queued
  /\ UNCHANGED <<sourceFile, outputFile, fileReadBuffer, lineBuffer, offset,
                 nRead, atEOF, lineCh, outCh, closed, keyToStatsMap,
                 outputBuffer, pc, globalErr>>
  /\ UNCHANGED writerVars

NextScan ==
  /\ replayed = <<>>
  /\ \E source \in ScanLines : Scan(source)

SpecScan == InitScan /\ [][NextScan]_vars

IsOpener(c) == c \in {"{", "[", "("}

IsCloser(c) == c \in {"}", "]", ")"}

\* The closers that the scan accepts for an opener.
Closes(opener, closer) ==
  \/ opener = "{" /\ closer = "}"
  \/ opener = "[" /\ closer \in {"]", ")"}
  \/ opener = "(" /\ closer \in {")", "]"}

\* Closers less openers among source[p..q], indices counted from 0.
Balance(source, p, q) ==
  Cardinality({i \in p..q : IsCloser(At(source, i))})
    - Cardinality({i \in p..q : IsOpener(At(source, i))})

\* The closer that an opener at p is paired with: the nearest one after it
\* that leaves the brackets between them balanced.
Partner(source, p) ==
  CHOOSE q \in (p + 1)..(Len(source) - 1) :
    /\ Balance(source, p, q) = 0
    /\ \A r \in (p + 1)..(q - 1) : Balance(source, p, r) # 0

\* The index at or above 1 at which the brackets from there to the end of
\* the line are balanced for the first time, scanning from the end.
BalancePoints(source) ==
  {j \in 1..(Len(source) - 1) : Balance(source, j, Len(source) - 1) = 0}

\* C29: for a line that ends in a closing bracket the scan never aborts and
\* never returns 0; it returns an index when the brackets balance at an
\* index of 1 or more and every opener from there on is paired with a
\* closer that may close it, and that index is the one of the opener paired
\* with the last byte of the line; it returns -1 otherwise.
C29_PayloadBoundary ==
  \A i \in 1..Len(replayed) :
    LET source == replayed[i].source
        last == Len(source) - 1
        statStart == replayed[i].statStart
        points == BalancePoints(source)
        first == CHOOSE j \in points : \A k \in points : k <= j
        matched == \A p \in first..last :
                     IsOpener(At(source, p))
                       => Closes(At(source, p), At(source, Partner(source, p)))
    IN  (Len(source) > 0 /\ IsCloser(At(source, last))) =>
          /\ statStart # 0
          /\ statStart # Panicked
          /\ IF points # {} /\ matched
             THEN /\ statStart = first
                  /\ IsOpener(At(source, statStart))
                  /\ Partner(source, statStart) = last
             ELSE statStart = NotFound

\* A histogram bucket inside parentheses: `[` closed by `)` and `(` by `]`.
C29_Witness ==
  /\ Len(replayed) = 1
  /\ replayed[1].source = <<"a", "[", "(", "]", ")">>
  /\ replayed[1].statStart = 1

(***************************************************************************)
(* The key of the reconstruction state.                                    *)
(***************************************************************************)
Reversed(s) == [i \in 1..Len(s) |-> s[Len(s) + 1 - i]]

\* The key under which ReconstructStatLine looks up the state of a line.
StatKeyOf(source) ==
  getStatNameFromSource(extractStatsFromLine(source) - 2, source)

\* C30: the key of a stat line is its stat type (the code keeps it
\* reversed), whatever its timestamp; so two stat lines have the same key
\* exactly when they have the same stat type.
C30_TypeRecovery ==
  \A i \in 1..Len(replayed) :
    replayed[i].stat =>
      /\ Reversed(StatKeyOf(replayed[i].source)) = replayed[i].statType
      /\ \A j \in 1..Len(replayed) :
           replayed[j].stat =>
             ((StatKeyOf(replayed[i].source) = StatKeyOf(replayed[j].source))
                <=> (replayed[i].statType = replayed[j].statType))

(***************************************************************************)
(* Lines that are no stat lines.                                           *)
(***************************************************************************)
\* The stat lines among the first i lines replayed, in order.
StatSourcesUpTo(i) ==
  LET sel == SelectSeq(SubSeq(replayed, 1, i), LAMBDA h : h.stat)
  IN  [j \in 1..Len(sel) |-> sel[j].source]

\* C31: a line that is no candidate or is malformed comes out as it came
\* in, without ending the parser, and every stat line comes out as it does
\* when the stat lines alone are replayed: the other lines leave no trace
\* in the state.
C31_PassThrough ==
  \A i \in 1..Len(replayed) :
    IF replayed[i].stat
    THEN LET alone == Replay(EmptyMap, StatSourcesUpTo(i))
         IN  replayed[i].out = alone[Len(alone)]
    ELSE /\ ~replayed[i].panicked
         /\ replayed[i].out = replayed[i].source

(***************************************************************************)
(* The reader of ReconstructStatFile: the lines it sends on lineCh.        *)
(***************************************************************************)
\* The bytes of data after its last newline.
Unterminated(data) ==
  LET nl == Newlines(data)
      last == IF nl = {} THEN 0 ELSE CHOOSE p \in nl : \A q \in nl : q <= p
  IN  SubSeq(data, last + 1, Len(data))

\* The source split at its newlines: the lines that a newline ends, and
\* the bytes after the last newline when there are any.
Pieces(data) ==
  LinesOf(data)
    \o (IF Unterminated(data) = <<>> THEN <<>> ELSE <<Unterminated(data)>>)

ReaderDone == pc.reader \in {"close", "wait", "returned"}

\* C32: the lines that the reader has sent are the first pieces of the
\* source split at its newlines, in order, each without its newline, and
\* all the pieces once the reader is out of its loop.
C32_ChunkReassembly ==
  pc.reader # "idle" =>
    /\ Len(queued) <= Len(Pieces(sourceFile))
    /\ queued = SubSeq(Pieces(sourceFile), 1, Len(queued))
    /\ ReaderDone => queued = Pieces(sourceFile)

\* C35: once ReconstructStatFile has returned, the output file holds one
\* line for each piece of the source, the transformation of that piece,
\* the last piece included when no newline ends it.
C35_NoLineLost ==
  pc.reader = "returned" =>
    LET out == Replay(EmptyMap, Pieces(sourceFile))
    IN  outputFile = Concat([i \in 1..Len(out) |-> out[i] \o <<NL>>])

(***************************************************************************)
(* The file handles of a writer.                                           *)
(***************************************************************************)
\* C34: when every Write so far has returned nil and none is in progress,
\* the one handle that is open is lst.f, the handle of the active segment.
C34_OneHandle ==
  (/\ InProgress = {}
   /\ \A i \in 1..Len(returned) : returned[i].err = "nil")
  => handles.open = {handles.f}

(***************************************************************************)
(* The baseline of the deduplicating writer after a Write that failed.     *)
(***************************************************************************)
\* prevStatsMap when call i began, calls being made one after the other.
BaselineBefore(i) ==
  IF i = 1 THEN EmptyMap ELSE returned[i - 1].prevStatsMap

\* C33: a Write of the deduplicating writer that returns an error leaves
\* prevStatsMap as it was when the Write was called.
C33_BaselineKept ==
  \A i \in 1..Len(returned) :
    (dedupe /\ returned[i].op = "Write" /\ returned[i].err # "nil")
    => returned[i].prevStatsMap = BaselineBefore(i)

====
